---------------------------- MODULE Spec2Model ----------------------------
(***************************************************************************)
(* The technical-indicator engine of the trading terminal (lib/indicators) *)
(* as pure operators over a candle sequence, and a state machine that     *)
(* applies them to bounded inputs.                                        *)
(*                                                                         *)
(* Numbers.  The source computes on JavaScript numbers.  The model keeps   *)
(* them as exact rationals <<n, d>> in lowest terms with d >= 0, where     *)
(* d = 0 encodes the non-finite results of a division: <<1,0>> is          *)
(* Infinity, <<-1,0>> is -Infinity and <<0,0>> is NaN.  Math.sqrt is kept  *)
(* exact as well: a value a + b*sqrt(t) with t square-free is the record   *)
(* [a, b, t].  Rounding of IEEE-754 doubles is not represented.            *)
(*                                                                         *)
(* Indices.  The source indexes arrays from 0; At(s, i) reads s[i] in the  *)
(* source's numbering, so the loops keep the source's bounds.              *)
(***************************************************************************)
EXTENDS Integers, Sequences, FiniteSets, TLC

VARIABLES candles, fn, period, fastPeriod, slowPeriod, signalPeriod, stdDev,
          levelsPerCandle, draws, result, threw,
          component, interval, streamTime,
          ws, sockets, reconnectAttempts, timers, disconnected, callback

\* the kline stream of a chart component: the component that holds candles,
\* the length of a bar in milliseconds, and the open time of the bar that is
\* forming at the exchange
streamVars == <<component, interval, streamTime>>

\* a BinanceWebSocket: its field ws (0 for null, else the number of a
\* WebSocket), the readyState of every WebSocket it created, its field
\* reconnectAttempts, the number of reconnect timers that have not fired,
\* whether disconnect() was called with no connect() or changeSymbol() after
\* it, and the callback that the last step fired
socketVars == <<ws, sockets, reconnectAttempts, timers, disconnected, callback>>

vars == <<candles, fn, period, fastPeriod, slowPeriod, signalPeriod, stdDev,
          levelsPerCandle, draws, result, threw, streamVars, socketVars>>

---------------------------------------------------------------------------
(* Bounds of the model *)

\* longest candle sequence of closing-price inputs
MaxLen == 5
\* longest candle sequence of full OHLCV inputs
MaxShortLen == 2
\* largest period of the single-period indicators
MaxPeriod == 3
\* largest fastPeriod, slowPeriod and signalPeriod
MaxMACDPeriod == 2
\* longest candle sequence given to calculateFootprint
MaxFootprintLen == 2
\* largest levelsPerCandle
MaxLevels == 2
\* most calls of Math.random in one call of calculateFootprint
MaxDraws == 4
\* longest history of a chart component short of a full one
MaxHistory == 2
\* most bars the kline stream closes
MaxStreamBars == 2
\* most WebSockets a BinanceWebSocket creates
MaxSockets == 3

---------------------------------------------------------------------------
(* JavaScript numbers, exactly *)

Sign(n) == IF n > 0 THEN 1 ELSE IF n < 0 THEN -1 ELSE 0

Abs(n) == IF n < 0 THEN -n ELSE n

RECURSIVE GCD(_, _)
GCD(a, b) == IF b = 0 THEN a ELSE GCD(b, a % b)

NaN == <<0, 0>>
Infinity == <<1, 0>>

\* the number n/d in lowest terms; n/0 is +-Infinity, 0/0 is NaN
Norm(n, d) ==
    IF d = 0 THEN <<Sign(n), 0>>
    ELSE LET g == GCD(Abs(n), Abs(d))
             s == Sign(d)
         IN  <<(s * n) \div g, (s * d) \div g>>

Num(i) == <<i, 1>>

IsFinite(x) == x[2] # 0

IsNaN(x) == x = NaN

\* a + b of two numbers of which one is finite, over the least common
\* denominator; g divides both denominators
RAddOver(x, y, g) ==
    Norm(x[1] * (y[2] \div g) + y[1] * (x[2] \div g), (x[2] \div g) * y[2])

\* a + b
RAdd(x, y) ==
    IF ~IsFinite(x) /\ ~IsFinite(y)
    THEN IF x = y THEN x ELSE NaN
    ELSE IF ~IsFinite(x) THEN x
    ELSE IF ~IsFinite(y) THEN y
    ELSE RAddOver(x, y, GCD(x[2], y[2]))

RNeg(x) == <<-x[1], x[2]>>

\* a - b
RSub(x, y) == RAdd(x, RNeg(y))

\* a * b
RMul(x, y) == Norm(x[1] * y[1], x[2] * y[2])

RInv(x) ==
    IF x[1] = 0 THEN (IF x[2] = 0 THEN NaN ELSE Infinity)
    ELSE IF x[1] < 0 THEN <<-x[2], -x[1]>> ELSE <<x[2], x[1]>>

\* a / b : x/0 is +-Infinity, 0/0 is NaN, x/Infinity is 0
RDiv(x, y) == RMul(x, RInv(y))

\* a === b
REq(x, y) == x = y /\ ~IsNaN(x)

\* a < b of two finite numbers, compared over the least common denominator
RLtOver(x, y, g) == x[1] * (y[2] \div g) < y[1] * (x[2] \div g)

\* a < b
RLt(x, y) ==
    IF IsNaN(x) \/ IsNaN(y) THEN FALSE
    ELSE IF ~IsFinite(x) /\ ~IsFinite(y) THEN x[1] < y[1]
    ELSE IF ~IsFinite(x) THEN x[1] < 0
    ELSE IF ~IsFinite(y) THEN y[1] > 0
    ELSE RLtOver(x, y, GCD(x[2], y[2]))

\* a <= b
RLe(x, y) == RLt(x, y) \/ REq(x, y)

\* a > b
RGt(x, y) == RLt(y, x)

\* Math.abs
MathAbs(x) == <<Abs(x[1]), x[2]>>

\* Math.pow(x, 2)
Square(x) == RMul(x, x)

\* Math.max(a, b)
MathMax(x, y) == IF IsNaN(x) \/ IsNaN(y) THEN NaN ELSE IF RLt(x, y) THEN y ELSE x

\* Math.min(a, b)
MathMin(x, y) == IF IsNaN(x) \/ IsNaN(y) THEN NaN ELSE IF RLt(y, x) THEN y ELSE x

---------------------------------------------------------------------------
(* Arrays *)

\* s[i], with the source's indices 0 .. s.length - 1
At(s, i) == s[i + 1]

\* whether s[i] is an element; s[i].field throws a TypeError otherwise
InRange(s, i) == i >= 0 /\ i < Len(s)

\* the sum of the Number(..) of xs, left to right from 0:  reduce((a, b) => a + b, 0)
RECURSIVE SumFrom(_, _, _)
SumFrom(xs, i, acc) ==
    IF i >= Len(xs) THEN acc ELSE SumFrom(xs, i + 1, RAdd(acc, At(xs, i)))

Sum(xs) == SumFrom(xs, 0, Num(0))

---------------------------------------------------------------------------
(* Simple Moving Average *)

\* the inner loop: sum += candles[i - j].close for j = 0 .. period - 1
RECURSIVE WindowSum(_, _, _, _, _)
WindowSum(cs, i, j, p, sum) ==
    IF j < p
    THEN WindowSum(cs, i, j + 1, p, RAdd(sum, At(cs, i - j).close))
    ELSE sum

\* the outer loop: for (i = period - 1; i < candles.length; i++)
RECURSIVE SMALoop(_, _, _, _)
SMALoop(cs, p, i, res) ==
    IF i < Len(cs)
    THEN SMALoop(cs, p, i + 1,
                 Append(res, [time  |-> At(cs, i).time,
                              value |-> RDiv(WindowSum(cs, i, 0, p, Num(0)), Num(p))]))
    ELSE res

\* fault: the early return lets a sequence one bar short through
TooShort_OffByOne(cs, p) == Len(cs) < p - 1

\* the early return of calculateSMA, calculateEMA and calculateBollingerBands
TooShort(cs, p) == Len(cs) < p

\* fault: the outer loop starts at i = period, one bar late
calculateSMA_LateStart(cs, p) ==
    IF Len(cs) < p THEN <<>> ELSE SMALoop(cs, p, p, <<>>)

calculateSMA(cs, p) ==
    IF TooShort(cs, p) THEN <<>> ELSE SMALoop(cs, p, p - 1, <<>>)

\* the elements the windowed loops of calculateSMA and calculateBollingerBands read
WindowReads(cs, p) ==
    IF TooShort(cs, p) THEN {}
    ELSE {i - j : i \in (p - 1) .. (Len(cs) - 1), j \in 0 .. (p - 1)}

---------------------------------------------------------------------------
(* Exponential Moving Average *)

\* 2 / (period + 1)
Multiplier(p) == RDiv(Num(2), Num(p + 1))

\* sum += candles[i].close for i = 0 .. period - 1
RECURSIVE SeedSum(_, _, _, _)
SeedSum(cs, i, p, sum) ==
    IF i < p THEN SeedSum(cs, i + 1, p, RAdd(sum, At(cs, i).close)) ELSE sum

\* ema = (candles[i].close - ema) * multiplier + ema
EMAStep(x, ema, mult) == RAdd(RMul(RSub(x, ema), mult), ema)

\* for (i = period; i < candles.length; i++)
RECURSIVE EMALoop(_, _, _, _, _)
EMALoop(cs, p, i, ema, res) ==
    IF i < Len(cs)
    THEN LET next == EMAStep(At(cs, i).close, ema, Multiplier(p))
         IN  EMALoop(cs, p, i + 1, next,
                     Append(res, [time |-> At(cs, i).time, value |-> next]))
    ELSE res

\* fault: the EMA is seeded with the first close
EMASeed_FirstClose(cs, p) == At(cs, 0).close

\* Start with SMA for the first value: ema = sum / period
EMASeed(cs, p) == RDiv(SeedSum(cs, 0, p, Num(0)), Num(p))

calculateEMA(cs, p) ==
    IF TooShort(cs, p) THEN <<>>
    ELSE LET ema == EMASeed(cs, p)
         IN  EMALoop(cs, p, p, ema,
                     <<[time |-> At(cs, p - 1).time, value |-> ema]>>)

\* the elements calculateEMA reads
EMAReads(cs, p) ==
    IF TooShort(cs, p) THEN {}
    ELSE (0 .. (p - 1)) \cup (p .. (Len(cs) - 1))

---------------------------------------------------------------------------
(* Relative Strength Index *)

\* const change = candles[i].close - candles[i - 1].close, for i = 1 .. length - 1
Change(cs, i) == RSub(At(cs, i).close, At(cs, i - 1).close)

\* gains.push(change > 0 ? change : 0)
Gains(cs) ==
    [i \in 1 .. (Len(cs) - 1) |->
        IF RGt(Change(cs, i), Num(0)) THEN Change(cs, i) ELSE Num(0)]

\* losses.push(change < 0 ? Math.abs(change) : 0)
Losses(cs) ==
    [i \in 1 .. (Len(cs) - 1) |->
        IF RLt(Change(cs, i), Num(0)) THEN MathAbs(Change(cs, i)) ELSE Num(0)]

\* xs.slice(0, n)
Slice0(xs, n) == [i \in 1 .. (IF n < Len(xs) THEN n ELSE Len(xs)) |-> xs[i]]

\* fault: no rule for a zero average loss
RS_Unguarded(avgGain, avgLoss) == RDiv(avgGain, avgLoss)

\* rs = avgLoss === 0 ? 100 : avgGain / avgLoss
RS(avgGain, avgLoss) ==
    IF REq(avgLoss, Num(0)) THEN Num(100) ELSE RDiv(avgGain, avgLoss)

\* rsi = 100 - (100 / (1 + rs))
RSIValue(rs) == RSub(Num(100), RDiv(Num(100), RAdd(Num(1), rs)))

\* fault: the previous average is weighted by period
Smooth_FullWeight(avg, x, p) == RDiv(RAdd(RMul(avg, Num(p)), x), Num(p))

\* avg = (avg * (period - 1) + x) / period
Smooth(avg, x, p) == RDiv(RAdd(RMul(avg, Num(p - 1)), x), Num(p))

\* for (i = period; i < gains.length; i++); each entry keeps the averages the
\* value was computed from
RECURSIVE RSILoop(_, _, _, _, _, _, _, _)
RSILoop(cs, gains, losses, p, i, avgGain, avgLoss, res) ==
    IF i < Len(gains)
    THEN LET g == Smooth(avgGain, At(gains, i), p)
             l == Smooth(avgLoss, At(losses, i), p)
         IN  RSILoop(cs, gains, losses, p, i + 1, g, l,
                     Append(res, [time    |-> At(cs, i + 1).time,
                                  value   |-> RSIValue(RS(g, l)),
                                  avgGain |-> g,
                                  avgLoss |-> l]))
    ELSE res

\* the early return of calculateRSI
RSITooShort(cs, p) == Len(cs) < p + 1

\* the points of calculateRSI with the averages behind each
RSITrace(cs, p) ==
    IF RSITooShort(cs, p) THEN <<>>
    ELSE LET gains  == Gains(cs)
             losses == Losses(cs)
             g == RDiv(Sum(Slice0(gains, p)), Num(p))
             l == RDiv(Sum(Slice0(losses, p)), Num(p))
         IN  RSILoop(cs, gains, losses, p, p, g, l,
                     <<[time    |-> At(cs, p).time,
                        value   |-> RSIValue(RS(g, l)),
                        avgGain |-> g,
                        avgLoss |-> l]>>)

calculateRSI(cs, p) ==
    LET trace == RSITrace(cs, p)
    IN  [k \in 1 .. Len(trace) |-> [time |-> trace[k].time, value |-> trace[k].value]]

\* the elements calculateRSI reads
RSIReads(cs, p) ==
    IF RSITooShort(cs, p) THEN {}
    ELSE UNION {{i, i - 1} : i \in 1 .. (Len(cs) - 1)}
         \cup {p}
         \cup {i + 1 : i \in p .. (Len(cs) - 2)}

---------------------------------------------------------------------------
(* MACD *)

\* the early return of calculateMACD
MACDTooShort(cs, fast, slow, sig) == Len(cs) < slow + sig

\* fault: the fast series is read without offset
SlowStartIndex_None(fast, slow) == 0

\* const slowStartIndex = slowPeriod - fastPeriod
SlowStartIndex(fast, slow) == slow - fast

\* for (i = 0; i < slowEMA.length; i++) with fastIndex = i + slowStartIndex
RECURSIVE MACDLineLoop(_, _, _, _, _)
MACDLineLoop(fastEMA, slowEMA, start, i, line) ==
    IF i < Len(slowEMA)
    THEN LET fastIndex == i + start
         IN  MACDLineLoop(fastEMA, slowEMA, start, i + 1,
                 IF fastIndex >= 0 /\ fastIndex < Len(fastEMA)
                 THEN Append(line,
                          [time  |-> At(slowEMA, i).time,
                           value |-> RSub(At(fastEMA, fastIndex).value,
                                          At(slowEMA, i).value)])
                 ELSE line)
    ELSE line

MACDLine(cs, fast, slow) ==
    MACDLineLoop(calculateEMA(cs, fast), calculateEMA(cs, slow),
                 SlowStartIndex(fast, slow), 0, <<>>)

\* signalSum += macdLine[i].value for i = 0 .. signalPeriod - 1
RECURSIVE SignalSum(_, _, _, _)
SignalSum(line, i, sig, sum) ==
    IF i < sig THEN SignalSum(line, i + 1, sig, RAdd(sum, At(line, i).value)) ELSE sum

\* fault: the subtraction is reversed
Histogram_Reversed(macd, signal) == RSub(signal, macd)

\* histogram: macdLine[i].value - signal
Histogram(macd, signal) == RSub(macd, signal)

MACDPoint(pt, signal) ==
    [time      |-> pt.time,
     macd      |-> pt.value,
     signal    |-> signal,
     histogram |-> Histogram(pt.value, signal)]

\* fault: the recurrence adds the new value instead of the previous signal
SignalStep_AddsValue(x, signal, sig) == RAdd(RMul(RSub(x, signal), Multiplier(sig)), x)

\* signal = (macdLine[i].value - signal) * multiplier + signal
SignalStep(x, signal, sig) == RAdd(RMul(RSub(x, signal), Multiplier(sig)), signal)

\* for (i = signalPeriod; i < macdLine.length; i++)
RECURSIVE SignalLoop(_, _, _, _, _)
SignalLoop(line, sig, i, signal, res) ==
    IF i < Len(line)
    THEN LET next == SignalStep(At(line, i).value, signal, sig)
         IN  SignalLoop(line, sig, i + 1, next,
                        Append(res, MACDPoint(At(line, i), next)))
    ELSE res

\* the second early return: macdLine.length < signalPeriod
LineTooShort(line, sig) == Len(line) < sig

calculateMACD(cs, fast, slow, sig) ==
    IF MACDTooShort(cs, fast, slow, sig) THEN <<>>
    ELSE LET line == MACDLine(cs, fast, slow)
         IN  IF LineTooShort(line, sig) THEN <<>>
             ELSE LET signal == RDiv(SignalSum(line, 0, sig, Num(0)), Num(sig))
                  IN  SignalLoop(line, sig, sig, signal,
                                 <<MACDPoint(At(line, sig - 1), signal)>>)

\* whether calculateMACD dereferences a missing element: in its two calls of
\* calculateEMA, or in macdLine[0 .. signalPeriod - 1]
MACDThrows(cs, fast, slow, sig) ==
    IF MACDTooShort(cs, fast, slow, sig) THEN FALSE
    ELSE \/ \E i \in EMAReads(cs, fast) \cup EMAReads(cs, slow) : ~InRange(cs, i)
         \/ LET line == MACDLine(cs, fast, slow)
            IN  /\ ~LineTooShort(line, sig)
                /\ \E i \in 0 .. (sig - 1) : ~InRange(line, i)

---------------------------------------------------------------------------
(* Math.sqrt, exactly: the value a + b * sqrt(t), t a square-free integer *)

FromQ(q) == [a |-> q, b |-> Num(0), t |-> 1]

\* the largest r in lo .. hi with r * r <= m, by bisection
RECURSIVE IntSqrtIn(_, _, _)
IntSqrtIn(m, lo, hi) ==
    IF lo >= hi THEN lo
    ELSE LET mid == (lo + hi + 1) \div 2
         IN  IF mid * mid <= m THEN IntSqrtIn(m, mid, hi) ELSE IntSqrtIn(m, lo, mid - 1)

\* the integer part of the square root of m, for 1 <= m < 2^31
IntSqrt(m) == IntSqrtIn(m, 1, IF m < 46340 THEN m ELSE 46340)

\* the largest s with s * s dividing m, for 1 <= m < 2^31: the factors p up to
\* the cube root of what is left of m are divided out, after which what is
\* left has at most two prime factors and is a square or square-free
RECURSIVE SquarePartBy(_, _, _)
SquarePartBy(m, p, s) ==
    IF p > 1290 \/ p * p * p > m
    THEN LET r == IntSqrt(m) IN IF r * r = m THEN s * r ELSE s
    ELSE IF m % (p * p) = 0 THEN SquarePartBy(m \div (p * p), p, s * p)
    ELSE IF m % p = 0 THEN SquarePartBy(m \div p, p + 1, s)
    ELSE SquarePartBy(m, p + 1, s)

SquarePart(m) == SquarePartBy(m, 2, 1)

\* Math.sqrt(x): with n = sn*sn*tn and d = sd*sd*td,
\* sqrt(n/d) = (sn / (sd*td)) * sqrt(tn*td)
MathSqrt(x) ==
    IF IsNaN(x) \/ RLt(x, Num(0)) THEN FromQ(NaN)
    ELSE IF ~IsFinite(x) \/ x[1] = 0 THEN FromQ(x)
    ELSE LET sn == SquarePart(x[1])
             sd == SquarePart(x[2])
             tn == x[1] \div (sn * sn)
             td == x[2] \div (sd * sd)
         IN  IF tn * td = 1 THEN FromQ(Norm(sn, sd))
             ELSE [a |-> Num(0), b |-> Norm(sn, sd * td), t |-> tn * td]

\* q * u
SScale(q, u) ==
    LET b == RMul(q, u.b)
    IN  [a |-> RMul(q, u.a), b |-> b, t |-> IF b = Num(0) THEN 1 ELSE u.t]

\* u + v, for u and v over the same square root
SAdd(u, v) ==
    LET b == RAdd(u.b, v.b)
    IN  [a |-> RAdd(u.a, v.a),
         b |-> b,
         t |-> IF b = Num(0) THEN 1 ELSE IF u.b = Num(0) THEN v.t ELSE u.t]

\* u - v
SSub(u, v) == SAdd(u, SScale(Num(-1), v))

\* u === v
SEq(u, v) == u = v /\ ~IsNaN(u.a) /\ ~IsNaN(u.b)

\* the sign of a + b * sqrt(t), both finite
SSign(u) ==
    LET sa == Sign(u.a[1])
        sb == Sign(u.b[1])
        a2 == Square(u.a)
        b2 == RMul(Square(u.b), Num(u.t))
    IN  IF sb = 0 THEN sa
        ELSE IF sa = 0 \/ sa = sb THEN sb
        ELSE IF RGt(a2, b2) THEN sa
        ELSE IF REq(a2, b2) THEN 0
        ELSE sb

\* u <= v
SLe(u, v) ==
    /\ IsFinite(u.a) /\ IsFinite(u.b) /\ IsFinite(v.a) /\ IsFinite(v.b)
    /\ SSign(SSub(v, u)) >= 0

---------------------------------------------------------------------------
(* Bollinger Bands *)

\* squaredDiffSum += Math.pow(candles[i - j].close - sma, 2) for j = 0 .. period - 1
RECURSIVE SquaredDiffSum(_, _, _, _, _, _)
SquaredDiffSum(cs, i, j, p, sma, sum) ==
    IF j < p
    THEN SquaredDiffSum(cs, i, j + 1, p, sma,
             RAdd(sum, Square(RSub(At(cs, i - j).close, sma))))
    ELSE sum

\* upper: sma + stdDev * std
UpperBand(sma, k, std) == SAdd(FromQ(sma), SScale(k, std))

\* fault: the lower band forgets the multiplier
LowerBand_NoMultiplier(sma, k, std) == SSub(FromQ(sma), std)

\* lower: sma - stdDev * std
LowerBand(sma, k, std) == SSub(FromQ(sma), SScale(k, std))

BollingerPoint(cs, i, p, k) ==
    LET sma == RDiv(WindowSum(cs, i, 0, p, Num(0)), Num(p))
        std == MathSqrt(RDiv(SquaredDiffSum(cs, i, 0, p, sma, Num(0)), Num(p)))
    IN  [time   |-> At(cs, i).time,
         upper  |-> UpperBand(sma, k, std),
         middle |-> sma,
         lower  |-> LowerBand(sma, k, std)]

\* for (i = period - 1; i < candles.length; i++)
RECURSIVE BollingerLoop(_, _, _, _, _)
BollingerLoop(cs, p, k, i, res) ==
    IF i < Len(cs)
    THEN BollingerLoop(cs, p, k, i + 1, Append(res, BollingerPoint(cs, i, p, k)))
    ELSE res

calculateBollingerBands(cs, p, k) ==
    IF TooShort(cs, p) THEN <<>> ELSE BollingerLoop(cs, p, k, p - 1, <<>>)

---------------------------------------------------------------------------
(* VWAP with deviation bands *)

\* fault: the median price (high + low) / 2 in place of the typical price
TypicalPrice_Median(c) == RDiv(RAdd(c.high, c.low), Num(2))

\* const typicalPrice = (candle.high + candle.low + candle.close) / 3
TypicalPrice(c) == RDiv(RAdd(RAdd(c.high, c.low), c.close), Num(3))

\* fault: no fallback while the cumulative volume is 0
Vwap_NoFallback(tpv, vol, tp) == RDiv(tpv, vol)

\* vwap = cumulativeVolume > 0 ? cumulativeTPV / cumulativeVolume : typicalPrice
Vwap(tpv, vol, tp) == IF RGt(vol, Num(0)) THEN RDiv(tpv, vol) ELSE tp

\* fault: the sum of squared deviations is not divided by the volume
Variance_Unnormalised(sumSquaredDev, vol) ==
    IF RGt(vol, Num(0)) THEN sumSquaredDev ELSE Num(0)

\* variance = cumulativeVolume > 0 ? sumSquaredDev / cumulativeVolume : 0
Variance(sumSquaredDev, vol) ==
    IF RGt(vol, Num(0)) THEN RDiv(sumSquaredDev, vol) ELSE Num(0)

\* fault: the squared deviation is not weighted by the bar's volume
SquaredDeviation_Unweighted(tp, vwap, volume) == Square(RSub(tp, vwap))

\* squaredDeviations.push(Math.pow(typicalPrice - vwap, 2) * candle.volume)
SquaredDeviation(tp, vwap, volume) == RMul(Square(RSub(tp, vwap)), volume)

VWAPPoint(time, vwap, sd) ==
    [time       |-> time,
     vwap       |-> vwap,
     upperBand1 |-> SAdd(FromQ(vwap), sd),
     lowerBand1 |-> SSub(FromQ(vwap), sd),
     upperBand2 |-> SAdd(FromQ(vwap), SScale(Num(2), sd)),
     lowerBand2 |-> SSub(FromQ(vwap), SScale(Num(2), sd))]

\* for (i = 0; i < candles.length; i++), carrying cumulativeTPV,
\* cumulativeVolume and the squaredDeviations array
RECURSIVE VWAPLoop(_, _, _, _, _, _)
VWAPLoop(cs, i, tpv, vol, devs, res) ==
    IF i < Len(cs)
    THEN LET c     == At(cs, i)
             tp    == TypicalPrice(c)
             tpv2  == RAdd(tpv, RMul(tp, c.volume))
             vol2  == RAdd(vol, c.volume)
             vwap  == Vwap(tpv2, vol2, tp)
             devs2 == Append(devs, SquaredDeviation(tp, vwap, c.volume))
             sd    == MathSqrt(Variance(Sum(devs2), vol2))
         IN  VWAPLoop(cs, i + 1, tpv2, vol2, devs2,
                      Append(res, VWAPPoint(c.time, vwap, sd)))
    ELSE res

calculateVWAP(cs) ==
    IF Len(cs) = 0 THEN <<>> ELSE VWAPLoop(cs, 0, Num(0), Num(0), <<>>, <<>>)

\* the elements the single-pass loops of calculateVWAP, calculateCVD and
\* calculateDeltaBars read
PassReads(cs) == 0 .. (Len(cs) - 1)

---------------------------------------------------------------------------
(* Cumulative Volume Delta *)

\* fault: no rule for a bar without range
ClosePosition_Unguarded(c) == RDiv(RSub(c.close, c.low), RSub(c.high, c.low))

\* closePosition = range > 0 ? (candle.close - candle.low) / range : 0.5
ClosePosition(c) ==
    LET range == RSub(c.high, c.low)
    IN  IF RGt(range, Num(0)) THEN RDiv(RSub(c.close, c.low), range) ELSE Norm(1, 2)

\* buyVolume = candle.volume * closePosition
BuyVolume(c) == RMul(c.volume, ClosePosition(c))

\* sellVolume = candle.volume * (1 - closePosition)
SellVolume(c) == RMul(c.volume, RSub(Num(1), ClosePosition(c)))

\* delta = buyVolume - sellVolume
Delta(c) == RSub(BuyVolume(c), SellVolume(c))

\* fault: the running sum is overwritten by the bar's delta
Accumulate_Overwrites(cumulativeDelta, delta) == delta

\* cumulativeDelta += delta
Accumulate(cumulativeDelta, delta) == RAdd(cumulativeDelta, delta)

\* for (const candle of candles), carrying cumulativeDelta
RECURSIVE CVDLoop(_, _, _, _)
CVDLoop(cs, i, cumulativeDelta, res) ==
    IF i < Len(cs)
    THEN LET cum == Accumulate(cumulativeDelta, Delta(At(cs, i)))
         IN  CVDLoop(cs, i + 1, cum,
                     Append(res, [time  |-> At(cs, i).time,
                                  cvd   |-> cum,
                                  delta |-> Delta(At(cs, i))]))
    ELSE res

calculateCVD(cs) ==
    IF Len(cs) = 0 THEN <<>> ELSE CVDLoop(cs, 0, Num(0), <<>>)

---------------------------------------------------------------------------
(* Delta bars *)

\* fault: the time is converted to milliseconds
DeltaBar_TimeInMilliseconds(c) ==
    [time       |-> c.time * 1000,
     delta      |-> Delta(c),
     buyVolume  |-> BuyVolume(c),
     sellVolume |-> SellVolume(c),
     maxDelta   |-> MathMax(Delta(c), Num(0)),
     minDelta   |-> MathMin(Delta(c), Num(0))]

\* result.push({time, delta, buyVolume, sellVolume, maxDelta, minDelta})
DeltaBar(c) ==
    [time       |-> c.time,
     delta      |-> Delta(c),
     buyVolume  |-> BuyVolume(c),
     sellVolume |-> SellVolume(c),
     maxDelta   |-> MathMax(Delta(c), Num(0)),
     minDelta   |-> MathMin(Delta(c), Num(0))]

\* for (const candle of candles)
RECURSIVE DeltaBarsLoop(_, _, _)
DeltaBarsLoop(cs, i, res) ==
    IF i < Len(cs)
    THEN DeltaBarsLoop(cs, i + 1, Append(res, DeltaBar(At(cs, i))))
    ELSE res

calculateDeltaBars(cs) == DeltaBarsLoop(cs, 0, <<>>)

---------------------------------------------------------------------------
(* Footprint: levels synthesized from a candle.  Math.random is the sequence *)
(* rnd of the numbers it returns, read from position r on.                  *)

\* range = candle.high - candle.low
Range(c) == RSub(c.high, c.low)

\* fault: no bar is skipped
SkipsBar_Never(c) == FALSE

\* fault: a bar is skipped unless its range is positive
SkipsBar_NonPositive(c) == ~RGt(Range(c), Num(0))

\* if (range === 0) continue
SkipsBar(c) == REq(Range(c), Num(0))

\* priceStep = range / levelsPerCandle
PriceStep(c, n) == RDiv(Range(c), Num(n))

\* fault: the level is priced at the lower edge of its bin
LevelPrice_BinEdge(c, n, i) == RAdd(c.low, RMul(Num(i), PriceStep(c, n)))

\* levelPrice = candle.low + (i + 0.5) * priceStep
LevelPrice(c, n, i) ==
    RAdd(c.low, RMul(RAdd(Num(i), Norm(1, 2)), PriceStep(c, n)))

\* fault: a bar that closes at its open counts as bearish
IsBullish_Strict(c) == RLt(c.open, c.close)

\* isBullish = candle.close >= candle.open
IsBullish(c) == RLe(c.open, c.close)

\* levelPrice >= bodyBottom && levelPrice <= bodyTop
IsInBody(c, levelPrice) ==
    LET bodyTop    == MathMax(c.open, c.close)
        bodyBottom == MathMin(c.open, c.close)
    IN  RLe(bodyBottom, levelPrice) /\ RLe(levelPrice, bodyTop)

\* levelVolume = candle.volume / levelsPerCandle, times 1.5 in the body and
\* times 0.5 outside
LevelVolume(c, n, levelPrice) ==
    RMul(RDiv(c.volume, Num(n)),
         IF IsInBody(c, levelPrice) THEN Norm(3, 2) ELSE Norm(1, 2))

\* positionFactor = (levelPrice - candle.low) / range
PositionFactor(c, levelPrice) == RDiv(RSub(levelPrice, c.low), Range(c))

\* fault: the bearish bar takes the ratio of the bullish bar
BidRatio_NotMirrored(c, levelPrice) ==
    RAdd(Norm(35, 100), RMul(PositionFactor(c, levelPrice), Norm(15, 100)))

\* bidRatio: 0.35 + positionFactor * 0.15 if bullish, else 0.65 - positionFactor * 0.15
BidRatio(c, levelPrice) ==
    IF IsBullish(c)
    THEN RAdd(Norm(35, 100), RMul(PositionFactor(c, levelPrice), Norm(15, 100)))
    ELSE RSub(Norm(65, 100), RMul(PositionFactor(c, levelPrice), Norm(15, 100)))

\* askRatio: 0.65 - positionFactor * 0.15 if bullish, else 0.35 + positionFactor * 0.15
AskRatio(c, levelPrice) ==
    IF IsBullish(c)
    THEN RSub(Norm(65, 100), RMul(PositionFactor(c, levelPrice), Norm(15, 100)))
    ELSE RAdd(Norm(35, 100), RMul(PositionFactor(c, levelPrice), Norm(15, 100)))

\* noise = 0.9 + Math.random() * 0.2
Noise(random) == RAdd(Norm(9, 10), RMul(random, Norm(2, 10)))

\* fault: the threshold factor of 3 is missing
Imbalance_NoThreshold(bidVolume, askVolume) ==
    IF RGt(askVolume, bidVolume) THEN "ask"
    ELSE IF RGt(bidVolume, askVolume) THEN "bid"
    ELSE "neutral"

\* fault: the threshold factor is 1.5
Imbalance_LowThreshold(bidVolume, askVolume) ==
    IF RGt(askVolume, RMul(bidVolume, Norm(3, 2))) THEN "ask"
    ELSE IF RGt(bidVolume, RMul(askVolume, Norm(3, 2))) THEN "bid"
    ELSE "neutral"

\* 'ask' if askVolume > bidVolume * 3, else 'bid' if bidVolume > askVolume * 3,
\* else 'neutral'
Imbalance(bidVolume, askVolume) ==
    IF RGt(askVolume, RMul(bidVolume, Num(3))) THEN "ask"
    ELSE IF RGt(bidVolume, RMul(askVolume, Num(3))) THEN "bid"
    ELSE "neutral"

\* levels.push({price, bidVolume, askVolume, delta, imbalance}) with
\* delta = askVolume - bidVolume
LevelOf(levelPrice, bidVolume, askVolume) ==
    [price     |-> levelPrice,
     bidVolume |-> bidVolume,
     askVolume |-> askVolume,
     delta     |-> RSub(askVolume, bidVolume),
     imbalance |-> Imbalance(bidVolume, askVolume)]

\* fault: the noise multiplies the bid volume only
LevelAt_NoiseOnBidOnly(c, n, levelPrice, noise) ==
    LevelOf(levelPrice,
            RMul(RMul(LevelVolume(c, n, levelPrice), BidRatio(c, levelPrice)), noise),
            RMul(LevelVolume(c, n, levelPrice), AskRatio(c, levelPrice)))

\* bidVolume = levelVolume * bidRatio * noise, askVolume = levelVolume *
\* askRatio * noise, with the one noise of the iteration
LevelAt(c, n, levelPrice, noise) ==
    LevelOf(levelPrice,
            RMul(RMul(LevelVolume(c, n, levelPrice), BidRatio(c, levelPrice)), noise),
            RMul(RMul(LevelVolume(c, n, levelPrice), AskRatio(c, levelPrice)), noise))

\* the level of iteration i, in which Math.random returns random
FootprintLevel(c, n, i, random) == LevelAt(c, n, LevelPrice(c, n, i), Noise(random))

\* if (totalLevelVolume > maxVolume) { maxVolume = totalLevelVolume;
\* pocPrice = levelPrice }
TrackPoc(acc, levelPrice, totalLevelVolume) ==
    IF RGt(totalLevelVolume, acc.maxVolume)
    THEN [acc EXCEPT !.maxVolume = totalLevelVolume, !.pocPrice = levelPrice]
    ELSE acc

\* the rest of an iteration: totalBidVol += bidVolume, totalAskVol +=
\* askVolume, levels.push(level)
PushLevel(acc, level) ==
    TrackPoc([acc EXCEPT !.levels      = Append(@, level),
                         !.totalBidVol = RAdd(@, level.bidVolume),
                         !.totalAskVol = RAdd(@, level.askVolume)],
             level.price, RAdd(level.bidVolume, level.askVolume))

\* for (i = 0; i < levelsPerCandle; i++), carrying levels, totalBidVol,
\* totalAskVol, maxVolume and pocPrice
RECURSIVE LevelsLoop(_, _, _, _, _, _)
LevelsLoop(c, n, i, rnd, r, acc) ==
    IF i < n
    THEN LevelsLoop(c, n, i + 1, rnd, r,
                    PushLevel(acc, FootprintLevel(c, n, i, At(rnd, r + i))))
    ELSE acc

\* fault: totalDelta is taken as totalBidVol - totalAskVol
BarOf_DeltaReversed(time, acc) ==
    [time           |-> time,
     levels         |-> acc.levels,
     totalBidVolume |-> acc.totalBidVol,
     totalAskVolume |-> acc.totalAskVol,
     totalDelta     |-> RSub(acc.totalBidVol, acc.totalAskVol),
     pocPrice       |-> acc.pocPrice]

\* result.push({time, levels, totalBidVolume, totalAskVolume, totalDelta, pocPrice})
BarOf(time, acc) ==
    [time           |-> time,
     levels         |-> acc.levels,
     totalBidVolume |-> acc.totalBidVol,
     totalAskVolume |-> acc.totalAskVol,
     totalDelta     |-> RSub(acc.totalAskVol, acc.totalBidVol),
     pocPrice       |-> acc.pocPrice]

\* the FootprintCandle pushed for a candle that is not skipped
FootprintBar(c, n, rnd, r) ==
    BarOf(c.time,
          LevelsLoop(c, n, 0, rnd, r,
              [levels      |-> <<>>,
               totalBidVol |-> Num(0),
               totalAskVol |-> Num(0),
               maxVolume   |-> Num(0),
               pocPrice    |-> RDiv(RAdd(c.high, c.low), Num(2))]))

\* for (const candle of candles); r counts the calls of Math.random so far
RECURSIVE FootprintLoop(_, _, _, _, _, _)
FootprintLoop(cs, n, k, rnd, r, res) ==
    IF k < Len(cs)
    THEN IF SkipsBar(At(cs, k))
         THEN FootprintLoop(cs, n, k + 1, rnd, r, res)
         ELSE FootprintLoop(cs, n, k + 1, rnd, r + n,
                            Append(res, FootprintBar(At(cs, k), n, rnd, r)))
    ELSE res

calculateFootprint(cs, n, rnd) == FootprintLoop(cs, n, 0, rnd, 0, <<>>)

\* the number of calls of Math.random in calculateFootprint(cs, n): one per
\* level of every candle that is not skipped
RandomCalls(cs, n) == n * Cardinality({k \in 0 .. (Len(cs) - 1) : ~SkipsBar(At(cs, k))})

---------------------------------------------------------------------------
(* Inputs *)

\* closing prices of the long inputs
Closes == 1 .. 3

\* a candle that closes at c (open = close, a wick of one above)
TrendCandle(c) == [open |-> c, high |-> c + 1, low |-> c, close |-> c, volume |-> 1]

TrendCandles == {TrendCandle(c) : c \in Closes}

OHLCV(o, h, l, c, v) == [open |-> o, high |-> h, low |-> l, close |-> c, volume |-> v]

\* low <= min(open, close) and high >= max(open, close), volume >= 0
WellFormed(c) ==
    /\ c.low <= c.open /\ c.low <= c.close
    /\ c.high >= c.open /\ c.high >= c.close
    /\ c.volume >= 0

\* candle shapes of the short inputs: flat, full-body up and down, wicks on
\* both sides, close inside the range, without volume
ShapeCandles ==
    {OHLCV(2, 2, 2, 2, 2), OHLCV(1, 1, 1, 1, 0),
     OHLCV(1, 3, 1, 3, 2), OHLCV(3, 3, 1, 1, 2),
     OHLCV(2, 4, 1, 3, 3), OHLCV(3, 4, 1, 2, 1),
     OHLCV(2, 3, 1, 2, 2), OHLCV(1, 2, 1, 2, 0),
     OHLCV(4, 6, 2, 5, 4), OHLCV(5, 5, 2, 3, 1)}

\* sequences over S of length 0 .. n
SeqsUpTo(S, n) == UNION {[1 .. k -> S] : k \in 0 .. n}

\* the CandleData of a stream of one-minute klines: candle i (from 0) opens at
\* minute i + 1, and every price and volume is a number
Stamp(shapes) ==
    [i \in 1 .. Len(shapes) |->
        [time   |-> 60 * i,
         open   |-> Num(shapes[i].open),
         high   |-> Num(shapes[i].high),
         low    |-> Num(shapes[i].low),
         close  |-> Num(shapes[i].close),
         volume |-> Num(shapes[i].volume)]]

Inputs ==
    {Stamp(s) : s \in SeqsUpTo(TrendCandles, MaxLen)}
        \cup {Stamp(s) : s \in SeqsUpTo(ShapeCandles, MaxShortLen)}

Periods == 1 .. MaxPeriod

MACDPeriods == 1 .. MaxMACDPeriod

\* standard-deviation multipliers of the Bollinger bands
Multipliers == {-1, 0, 2}

\* candle shapes given to calculateFootprint: without range, up and down with
\* wicks on both sides, a doji whose body is one price, without volume, and a
\* bar with a negative volume, which the function does not reject
FootprintShapes ==
    {OHLCV(2, 2, 2, 2, 2), OHLCV(2, 5, 1, 3, 3), OHLCV(3, 5, 1, 2, 1),
     OHLCV(2, 3, 1, 2, 2), OHLCV(1, 2, 1, 2, 0), OHLCV(1, 3, 1, 3, -2)}

FootprintInputs == {Stamp(s) : s \in SeqsUpTo(FootprintShapes, MaxFootprintLen)}

\* candle shapes that are not well formed: high below low, open and close
\* outside [low, high], a negative volume, all of these on a bar without
\* range; and two well-formed shapes, flat and with wicks
MalformedShapes ==
    {OHLCV(2, 1, 3, 2, 1), OHLCV(5, 3, 1, 0, 2), OHLCV(1, 3, 1, 3, -2),
     OHLCV(2, 1, 1, 3, -1), OHLCV(2, 2, 2, 2, 2), OHLCV(2, 5, 1, 3, 3)}

MalformedInputs == {Stamp(s) : s \in SeqsUpTo(MalformedShapes, MaxShortLen)}

\* values of levelsPerCandle
LevelCounts == 1 .. MaxLevels

\* numbers Math.random returns, from [0, 1)
Randoms == {Num(0), Norm(3, 4)}

---------------------------------------------------------------------------
(* The state machine: one call of an indicator function per step *)

\* no call made yet, on the candles cs
Idle(cs) ==
    /\ candles = cs
    /\ fn = "none"
    /\ period = 0
    /\ fastPeriod = 0
    /\ slowPeriod = 0
    /\ signalPeriod = 0
    /\ stdDev = 0
    /\ levelsPerCandle = 0
    /\ draws = <<>>
    /\ result = <<>>
    /\ threw = FALSE
    /\ component = "none"
    /\ interval = 0
    /\ streamTime = 0
    /\ ws = 0
    /\ sockets = <<>>
    /\ reconnectAttempts = 0
    /\ timers = 0
    /\ disconnected = FALSE
    /\ callback = "none"

Init == \E cs \in Inputs : Idle(cs)

\* a call: the parameters it was given, whether it threw, what it returned;
\* no function assigns to candles or to an element of it
Call(name, p, fast, slow, sig, k, throws, value) ==
    /\ fn = "none"
    /\ fn' = name
    /\ period' = p
    /\ fastPeriod' = fast
    /\ slowPeriod' = slow
    /\ signalPeriod' = sig
    /\ stdDev' = k
    /\ levelsPerCandle' = 0
    /\ draws' = <<>>
    /\ threw' = throws
    /\ result' = IF threw' THEN <<>> ELSE value
    /\ UNCHANGED <<candles, streamVars, socketVars>>

\* whether one of the elements read is missing
Missing(cs, reads) == \E i \in reads : ~InRange(cs, i)

CallSMA ==
    \E p \in Periods :
        Call("SMA", p, 0, 0, 0, 0,
             Missing(candles, WindowReads(candles, p)), calculateSMA(candles, p))

CallEMA ==
    \E p \in Periods :
        Call("EMA", p, 0, 0, 0, 0,
             Missing(candles, EMAReads(candles, p)), calculateEMA(candles, p))

CallRSI ==
    \E p \in Periods :
        Call("RSI", p, 0, 0, 0, 0,
             Missing(candles, RSIReads(candles, p)), calculateRSI(candles, p))

CallMACD ==
    \E fast \in MACDPeriods, slow \in MACDPeriods, sig \in MACDPeriods :
        Call("MACD", 0, fast, slow, sig, 0,
             MACDThrows(candles, fast, slow, sig),
             calculateMACD(candles, fast, slow, sig))

CallBollingerBands ==
    \E p \in Periods, k \in Multipliers :
        Call("BollingerBands", p, 0, 0, 0, k,
             Missing(candles, WindowReads(candles, p)),
             calculateBollingerBands(candles, p, Num(k)))

CallVWAP ==
    Call("VWAP", 0, 0, 0, 0, 0,
         Missing(candles, PassReads(candles)), calculateVWAP(candles))

CallCVD ==
    Call("CVD", 0, 0, 0, 0, 0,
         Missing(candles, PassReads(candles)), calculateCVD(candles))

CallDeltaBars ==
    Call("DeltaBars", 0, 0, 0, 0, 0,
         Missing(candles, PassReads(candles)), calculateDeltaBars(candles))

\* the caller has drawn the series and drops it; the next render calls again
Consume ==
    /\ fn # "none"
    /\ fn' = "none"
    /\ period' = 0
    /\ fastPeriod' = 0
    /\ slowPeriod' = 0
    /\ signalPeriod' = 0
    /\ stdDev' = 0
    /\ levelsPerCandle' = 0
    /\ draws' = <<>>
    /\ threw' = FALSE
    /\ result' = <<>>
    /\ UNCHANGED <<candles, streamVars, socketVars>>

Next ==
    \/ Consume
    \/ CallSMA
    \/ CallEMA
    \/ CallRSI
    \/ CallMACD
    \/ CallBollingerBands
    \/ CallVWAP
    \/ CallCVD
    \/ CallDeltaBars

Spec == Init /\ [][Next]_vars

---------------------------------------------------------------------------
(* The state machine of the volume indicators alone: the calls that read *)
(* high, low and volume                                                 *)

VolumeNext ==
    \/ Consume
    \/ CallVWAP
    \/ CallCVD
    \/ CallDeltaBars

VolumeSpec == Init /\ [][VolumeNext]_vars

---------------------------------------------------------------------------
(* The state machine of the footprint: one call of calculateFootprint per *)
(* step, with the numbers Math.random returned during the call            *)

FootprintInit == \E cs \in FootprintInputs : Idle(cs)

CallFootprint ==
    /\ fn = "none"
    /\ \E n \in {m \in LevelCounts : RandomCalls(candles, m) <= MaxDraws} :
          \E rnd \in [1 .. RandomCalls(candles, n) -> Randoms] :
              /\ fn' = "Footprint"
              /\ levelsPerCandle' = n
              /\ draws' = rnd
              /\ threw' = Missing(candles, PassReads(candles))
              /\ result' = IF threw' THEN <<>> ELSE calculateFootprint(candles, n, rnd)
    /\ UNCHANGED <<candles, period, fastPeriod, slowPeriod, signalPeriod, stdDev,
                   streamVars, socketVars>>

FootprintNext ==
    \/ Consume
    \/ CallFootprint

FootprintSpec == FootprintInit /\ [][FootprintNext]_vars

---------------------------------------------------------------------------
(* The footprint overlay: the effect that computes the footprint of the     *)
(* candles it is given and draws it, one slot per entry                     *)

\* calculateFootprint(candles, 8)
OverlayLevels == 8

\* what the drawing loop takes for slot i: fp = footprintData[i] and
\* candle = candles[i], whose high and low size the levels and whose index
\* gives x = padding.left + i * candleSpacing
Slot(cs, footprintData, i) ==
    [index |-> i, fp |-> At(footprintData, i), candle |-> At(cs, i)]

\* for (let i = 0; i < footprintData.length; i++)
RECURSIVE DrawLoop(_, _, _, _)
DrawLoop(cs, footprintData, i, drawn) ==
    IF i < Len(footprintData)
    THEN DrawLoop(cs, footprintData, i + 1, Append(drawn, Slot(cs, footprintData, i)))
    ELSE drawn

\* the numbers Math.random returns during one effect: n numbers, all equal
\* or alternating
OverlayDraws(n) ==
    {[i \in 1 .. n |-> r] : r \in Randoms}
        \cup {[i \in 1 .. n |-> IF i % 2 = 1 THEN Num(0) ELSE Norm(3, 4)]}

\* the effect of FootprintOverlay: nothing is drawn for no candles
RenderFootprint ==
    /\ fn = "none"
    /\ \E rnd \in OverlayDraws(RandomCalls(candles, OverlayLevels)) :
          /\ fn' = "FootprintOverlay"
          /\ levelsPerCandle' = OverlayLevels
          /\ draws' = rnd
          /\ threw' = Missing(candles, PassReads(candles))
          /\ result' = IF threw' \/ Len(candles) = 0 THEN <<>>
                       ELSE DrawLoop(candles,
                                     calculateFootprint(candles, OverlayLevels, rnd),
                                     0, <<>>)
    /\ UNCHANGED <<candles, period, fastPeriod, slowPeriod, signalPeriod, stdDev,
                   streamVars, socketVars>>

OverlayNext ==
    \/ Consume
    \/ RenderFootprint

OverlaySpec == FootprintInit /\ [][OverlayNext]_vars

---------------------------------------------------------------------------
(* The candles of a chart component under the live kline stream: the        *)
(* history it fetched, merged with the events of the bar that is forming    *)

\* if (newCandles.length > 200) newCandles.shift()
WidgetLimit == 200

\* if (newCandles.length > 100) newCandles.shift()
TerminalLimit == 100

\* the CandleData handleKline builds from an event: time is k.t, the open
\* time of the bar, and the prices are those of the bar so far
Kline(t, c) ==
    [time   |-> t,
     open   |-> Num(1),
     high   |-> Num(c + 1),
     low    |-> Num(1),
     close  |-> Num(c),
     volume |-> Num(c)]

\* newCandles.push(kline), then shift() over the limit
Pushed(prev, kline, limit) ==
    IF Len(prev) + 1 > limit THEN Tail(Append(prev, kline)) ELSE Append(prev, kline)

\* newCandles[newCandles.length - 1] = kline
Replaced(prev, kline) == [prev EXCEPT ![Len(prev)] = kline]

\* onKline of AdvancedChartWidget, as the updater given to setCandles
AdvancedChartWidgetOnKline(prev, kline, isClosed) ==
    IF Len(prev) = 0 THEN <<kline>>
    ELSE IF isClosed THEN Pushed(prev, kline, WidgetLimit)
    ELSE Replaced(prev, kline)

\* Math.floor(lastCandle.time / 60000) === Math.floor(kline.time / 60000)
SameMinute(lastCandle, kline) == lastCandle.time \div 60000 = kline.time \div 60000

\* onKline of Terminal, as the updater given to setCandles
TerminalOnKline(prev, kline, isClosed) ==
    IF Len(prev) = 0 THEN prev
    ELSE IF isClosed THEN Pushed(prev, kline, TerminalLimit)
    ELSE IF SameMinute(prev[Len(prev)], kline) THEN Replaced(prev, kline)
    ELSE prev

\* the number of the bar that is forming when the history is fetched
HistoryEnd == WidgetLimit

\* fetchKlines(symbol, timeframe, limit): the n latest bars of length iv, the
\* last of them the bar that is forming
History(n, iv) == [i \in 1 .. n |-> Kline(iv * (HistoryEnd - n + i), 1)]

\* lengths of the history: none (the fetch failed), short, and the full limit
HistoryLengths(limit) == (0 .. MaxHistory) \cup {limit}

\* lengths of a bar: one minute and five minutes, in milliseconds
Intervals == {60000, 300000}

\* prices of the events of a bar
KlinePrices == 1 .. 2

\* the effect that loads a component's data: setCandles(klines) with the
\* history, and a BinanceWebSocket whose stream is at streamTime
Streaming(name, klines, iv, time) ==
    /\ component = "none"
    /\ candles' = klines
    /\ component' = name
    /\ interval' = iv
    /\ streamTime' = time
    /\ UNCHANGED <<fn, period, fastPeriod, slowPeriod, signalPeriod, stdDev,
                   levelsPerCandle, draws, result, threw, socketVars>>

\* before a component is mounted
KlineInit == Idle(<<>>)

\* the stream is at the bar that was forming at the fetch, or at the next one
MountAdvancedChartWidget ==
    \E iv \in Intervals, n \in HistoryLengths(WidgetLimit), late \in 0 .. 1 :
        Streaming("AdvancedChartWidget", History(n, iv), iv, iv * (HistoryEnd + late))

MountTerminal ==
    \E iv \in Intervals, n \in HistoryLengths(TerminalLimit), late \in 0 .. 1 :
        Streaming("Terminal", History(n, iv), iv, iv * (HistoryEnd + late))

\* an event of the kline stream reaches handleKline: an update of the bar
\* that is forming, or its last event, after which the next bar forms
KlineEvent(name, kline, isClosed, merged) ==
    /\ component = name
    /\ isClosed => streamTime < interval * (HistoryEnd + MaxStreamBars)
    /\ candles' = merged
    /\ streamTime' = IF isClosed THEN streamTime + interval ELSE streamTime
    /\ UNCHANGED <<fn, period, fastPeriod, slowPeriod, signalPeriod, stdDev,
                   levelsPerCandle, draws, result, threw, component, interval,
                   socketVars>>

AdvancedChartWidgetKline ==
    \E c \in KlinePrices, isClosed \in BOOLEAN :
        KlineEvent("AdvancedChartWidget", Kline(streamTime, c), isClosed,
                   AdvancedChartWidgetOnKline(candles, Kline(streamTime, c), isClosed))

TerminalKline ==
    \E c \in KlinePrices, isClosed \in BOOLEAN :
        KlineEvent("Terminal", Kline(streamTime, c), isClosed,
                   TerminalOnKline(candles, Kline(streamTime, c), isClosed))

KlineNext ==
    \/ MountAdvancedChartWidget
    \/ MountTerminal
    \/ AdvancedChartWidgetKline
    \/ TerminalKline

KlineSpec == KlineInit /\ [][KlineNext]_vars

---------------------------------------------------------------------------
(* BinanceWebSocket: connect, disconnect and changeSymbol, the events of    *)
(* the WebSockets it created, and its reconnect timers                      *)

\* private maxReconnectAttempts = 5
maxReconnectAttempts == 5

\* the variables of the indicator engine and of the kline stream
restVars == <<candles, fn, period, fastPeriod, slowPeriod, signalPeriod, stdDev,
              levelsPerCandle, draws, result, threw, streamVars>>

\* this.ws?.readyState === WebSocket.OPEN
IsOpen(w, socks) == w # 0 /\ socks[w] = "OPEN"

\* connect(): nothing while this.ws is open, else this.ws = new WebSocket(wsUrl)
\* with the four handlers
ConnectBody(w, socks) ==
    IF IsOpen(w, socks)
    THEN /\ ws' = w
         /\ sockets' = socks
    ELSE /\ Len(socks) < MaxSockets
         /\ sockets' = Append(socks, "CONNECTING")
         /\ ws' = Len(socks) + 1

\* ws.close(): a WebSocket that is connecting or open starts closing
Closing(socks, w) ==
    IF socks[w] \in {"CONNECTING", "OPEN"} THEN [socks EXCEPT ![w] = "CLOSING"] ELSE socks

\* disconnect(), up to the assignment of reconnectAttempts: if (this.ws)
\* { this.ws.close(); this.ws = null }
Disconnected(socks, w) == IF w # 0 THEN Closing(socks, w) ELSE socks

\* the caller calls connect()
Connect ==
    /\ ConnectBody(ws, sockets)
    /\ disconnected' = FALSE
    /\ callback' = "none"
    /\ UNCHANGED <<reconnectAttempts, timers, restVars>>

\* the caller calls disconnect()
Disconnect ==
    /\ sockets' = Disconnected(sockets, ws)
    /\ ws' = 0
    /\ reconnectAttempts' = maxReconnectAttempts
    /\ disconnected' = TRUE
    /\ callback' = "none"
    /\ UNCHANGED <<timers, restVars>>

\* the caller calls changeSymbol(): disconnect(), new streams, connect()
ChangeSymbol ==
    /\ ConnectBody(0, Disconnected(sockets, ws))
    /\ reconnectAttempts' = maxReconnectAttempts
    /\ disconnected' = FALSE
    /\ callback' = "none"
    /\ UNCHANGED <<timers, restVars>>

\* onopen of WebSocket i: reconnectAttempts = 0, callbacks.onConnect
SocketOpen ==
    \E i \in 1 .. Len(sockets) :
        /\ sockets[i] = "CONNECTING"
        /\ sockets' = [sockets EXCEPT ![i] = "OPEN"]
        /\ reconnectAttempts' = 0
        /\ callback' = "onConnect"
        /\ UNCHANGED <<ws, timers, disconnected, restVars>>

\* onmessage of WebSocket i, delivered while it is open: handleMessage calls
\* onKline (after onPrice), onOrderBook or onTrade
SocketMessage ==
    \E i \in 1 .. Len(sockets), name \in {"onKline", "onOrderBook", "onTrade"} :
        /\ sockets[i] = "OPEN"
        /\ callback' = name
        /\ UNCHANGED <<ws, sockets, reconnectAttempts, timers, disconnected, restVars>>

\* onerror of WebSocket i: callbacks.onError
SocketError ==
    \E i \in 1 .. Len(sockets) :
        /\ sockets[i] \in {"CONNECTING", "OPEN"}
        /\ callback' = "onError"
        /\ UNCHANGED <<ws, sockets, reconnectAttempts, timers, disconnected, restVars>>

\* onclose of WebSocket i, after close() or a failure: callbacks.onDisconnect,
\* then attemptReconnect(), which returns at maxReconnectAttempts and else
\* counts the attempt and sets a timer
SocketClose ==
    \E i \in 1 .. Len(sockets) :
        /\ sockets[i] # "CLOSED"
        /\ sockets' = [sockets EXCEPT ![i] = "CLOSED"]
        /\ callback' = "onDisconnect"
        /\ IF reconnectAttempts >= maxReconnectAttempts
           THEN UNCHANGED <<reconnectAttempts, timers>>
           ELSE /\ reconnectAttempts' = reconnectAttempts + 1
                /\ timers' = timers + 1
        /\ UNCHANGED <<ws, disconnected, restVars>>

\* a reconnect timer fires: this.connect()
TimerFires ==
    /\ timers > 0
    /\ timers' = timers - 1
    /\ ConnectBody(ws, sockets)
    /\ callback' = "none"
    /\ UNCHANGED <<reconnectAttempts, disconnected, restVars>>

\* after new BinanceWebSocket(symbol, interval, callbacks)
SocketInit == Idle(<<>>)

SocketNext ==
    \/ Connect
    \/ Disconnect
    \/ ChangeSymbol
    \/ SocketOpen
    \/ SocketMessage
    \/ SocketError
    \/ SocketClose
    \/ TimerFires

SocketSpec == SocketInit /\ [][SocketNext]_vars

---------------------------------------------------------------------------
(* The state machine of the whole engine: one call of any of the nine       *)
(* indicator functions per step                                             *)

EngineInit == \E cs \in Inputs \cup FootprintInputs : Idle(cs)

EngineNext ==
    \/ Next
    \/ CallFootprint

EngineSpec == EngineInit /\ [][EngineNext]_vars

---------------------------------------------------------------------------
(* The state machine of the whole engine on bars that are not well formed   *)

MalformedInit == \E cs \in MalformedInputs : Idle(cs)

MalformedSpec == MalformedInit /\ [][EngineNext]_vars

---------------------------------------------------------------------------
(* Properties *)

L == Len(candles)

\* the sum of the closes of bars lo .. hi, as an integer fraction
RECURSIVE CloseTotal(_, _, _)
CloseTotal(cs, lo, hi) ==
    IF lo > hi THEN Num(0) ELSE RAdd(At(cs, hi).close, CloseTotal(cs, lo, hi - 1))

\* the arithmetic mean of close over bars lo .. hi
MeanClose(cs, lo, hi) == RDiv(CloseTotal(cs, lo, hi), Num(hi - lo + 1))

\* C1: for 1 <= P <= L, calculateSMA returns exactly L - P + 1 points, and
\* point k has the time of bars[P-1+k] and the arithmetic mean of close over
\* bars[k .. P-1+k] as its value.
C1_SMALengthTimeMean ==
    (fn = "SMA" /\ period >= 1 /\ period <= L) =>
        /\ ~threw
        /\ Len(result) = L - period + 1
        /\ \A k \in 0 .. (L - period) :
              /\ At(result, k).time = At(candles, period - 1 + k).time
              /\ REq(At(result, k).value, MeanClose(candles, k, period - 1 + k))

\* a window of 2 over 4 bars gives 3 points, not all alike
C1_Witness ==
    /\ fn = "SMA" /\ period = 2 /\ L = 4 /\ Len(result) = 3
    /\ At(result, 0).value # At(result, 1).value
    /\ At(result, 1).value # At(result, 2).value

C3_NoThrowEmptyWhenShort ==
    /\ ~threw
    /\ (fn \in {"SMA", "EMA", "BollingerBands"} /\ L < period) => result = <<>>
    /\ (fn = "RSI" /\ L < period + 1) => result = <<>>
    /\ (fn = "MACD" /\ L < slowPeriod + signalPeriod) => result = <<>>
    /\ (fn \in {"VWAP", "CVD"} /\ L = 0) => result = <<>>

\* an EMA over a sequence exactly one bar short of its period
C3_Witness ==
    /\ fn = "EMA" /\ period >= 2 /\ L = period - 1 /\ result = <<>> /\ ~threw

\* the gain and the loss of the difference bars[i].close - bars[i-1].close
GainAt(cs, i) ==
    LET d == RSub(At(cs, i).close, At(cs, i - 1).close)
    IN  IF RGt(d, Num(0)) THEN d ELSE Num(0)

LossAt(cs, i) ==
    LET d == RSub(At(cs, i - 1).close, At(cs, i).close)
    IN  IF RGt(d, Num(0)) THEN d ELSE Num(0)

RECURSIVE GainTotal(_, _, _)
GainTotal(cs, lo, hi) ==
    IF lo > hi THEN Num(0) ELSE RAdd(GainAt(cs, hi), GainTotal(cs, lo, hi - 1))

RECURSIVE LossTotal(_, _, _)
LossTotal(cs, lo, hi) ==
    IF lo > hi THEN Num(0) ELSE RAdd(LossAt(cs, hi), LossTotal(cs, lo, hi - 1))

\* the average gain behind point k: the plain mean of the first p gains for
\* k = 0, then avg = (avg * (p - 1) + gain) / p with the gain of bars[p+k]
RECURSIVE AvgGainAt(_, _, _)
AvgGainAt(cs, p, k) ==
    IF k = 0 THEN RDiv(GainTotal(cs, 1, p), Num(p))
    ELSE RDiv(RAdd(RMul(AvgGainAt(cs, p, k - 1), Num(p - 1)), GainAt(cs, p + k)),
              Num(p))

RECURSIVE AvgLossAt(_, _, _)
AvgLossAt(cs, p, k) ==
    IF k = 0 THEN RDiv(LossTotal(cs, 1, p), Num(p))
    ELSE RDiv(RAdd(RMul(AvgLossAt(cs, p, k - 1), Num(p - 1)), LossAt(cs, p + k)),
              Num(p))

\* 100 - 100/(1 + rs)
RSIOf(rs) == RSub(Num(100), RDiv(Num(100), RAdd(Num(1), rs)))

\* L - period points, point k at bars[period + k].time
RSIShape ==
    /\ ~threw
    /\ Len(result) = L - period
    /\ \A k \in 0 .. (L - period - 1) :
          At(result, k).time = At(candles, period + k).time

\* C4 as stated: for L >= period + 1, calculateRSI returns L - period points,
\* point k at bars[period+k].time, from the plain-mean seed and the smoothed
\* updates, each emitting 100 - 100/(1 + avgGain/avgLoss).
C4_RSIAsStated ==
    (fn = "RSI" /\ L >= period + 1) =>
        /\ RSIShape
        /\ \A k \in 0 .. (L - period - 1) :
              REq(At(result, k).value,
                  RSIOf(RDiv(AvgGainAt(candles, period, k),
                             AvgLossAt(candles, period, k))))

\* C4, amended: as stated, except that a point whose avgLoss is 0 emits
\* 100 - 100/(1 + 100) instead of 100 - 100/(1 + avgGain/avgLoss).
C4_RSIAmended ==
    (fn = "RSI" /\ L >= period + 1) =>
        /\ RSIShape
        /\ \A k \in 0 .. (L - period - 1) :
              LET g == AvgGainAt(candles, period, k)
                  l == AvgLossAt(candles, period, k)
              IN  REq(At(result, k).value,
                      RSIOf(IF REq(l, Num(0)) THEN Num(100) ELSE RDiv(g, l)))

\* a seed without losses followed by smoothed points with gains and losses
C4_Witness ==
    /\ fn = "RSI" /\ period = 2 /\ L = 5 /\ Len(result) = 3
    /\ REq(AvgLossAt(candles, period, 0), Num(0))
    /\ RGt(AvgLossAt(candles, period, 1), Num(0))
    /\ RGt(AvgGainAt(candles, period, 2), Num(0))
    /\ At(result, 1).value # At(result, 2).value

StrictlyIncreasing(cs) ==
    \A i \in 1 .. (Len(cs) - 1) : RLt(At(cs, i - 1).close, At(cs, i).close)

StrictlyDecreasing(cs) ==
    \A i \in 1 .. (Len(cs) - 1) : RGt(At(cs, i - 1).close, At(cs, i).close)

\* C5: a point computed from an average loss of exactly 0 is exactly
\* 100 - 100/101 and never 100; for strictly increasing closes every point
\* has this value, for strictly decreasing closes every point is 0.
C5_ZeroLossRule ==
    (fn = "RSI" /\ L >= period + 1) =>
        LET trace == RSITrace(candles, period)
        IN  /\ Len(result) = Len(trace)
            /\ \A k \in 0 .. (Len(result) - 1) :
                  /\ REq(At(trace, k).avgLoss, Num(0)) =>
                        /\ REq(At(result, k).value,
                               RSub(Num(100), RDiv(Num(100), Num(101))))
                        /\ ~REq(At(result, k).value, Num(100))
                  /\ StrictlyIncreasing(candles) =>
                        REq(At(result, k).value,
                            RSub(Num(100), RDiv(Num(100), Num(101))))
                  /\ StrictlyDecreasing(candles) =>
                        REq(At(result, k).value, Num(0))

\* three rising closes, period 1: both points come from a zero average loss
C5_Witness ==
    /\ fn = "RSI" /\ period = 1 /\ L = 3 /\ StrictlyIncreasing(candles)
    /\ Len(result) = 2
    /\ REq(At(RSITrace(candles, period), 1).avgLoss, Num(0))
    /\ RGt(At(RSITrace(candles, period), 1).avgGain, Num(0))

\* the positions of series whose time is t
IndicesAt(series, t) == {j \in 0 .. (Len(series) - 1) : At(series, j).time = t}

\* macd is the value of fastEMA minus the value of slowEMA at the bar of
\* time t, each series having exactly one point at t
IsEMADifference(fastEMA, slowEMA, macd, t) ==
    LET fs == IndicesAt(fastEMA, t)
        ss == IndicesAt(slowEMA, t)
    IN  /\ Cardinality(fs) = 1
        /\ Cardinality(ss) = 1
        /\ \A f \in fs, j \in ss :
              REq(macd, RSub(At(fastEMA, f).value, At(slowEMA, j).value))

\* C6: every MACD-line value is the fast EMA minus the slow EMA of the same
\* bar, the fast series being read at index i + (slowPeriod - fastPeriod) for
\* slow index i, for every fastPeriod and slowPeriod (fastPeriod > slowPeriod
\* included).
C6_MACDLineAligned ==
    fn = "MACD" =>
        LET fastEMA == calculateEMA(candles, fastPeriod)
            slowEMA == calculateEMA(candles, slowPeriod)
            line    == MACDLine(candles, fastPeriod, slowPeriod)
        IN  /\ \A k \in 0 .. (Len(result) - 1) :
                  IsEMADifference(fastEMA, slowEMA,
                                  At(result, k).macd, At(result, k).time)
            /\ \A k \in 0 .. (Len(line) - 1) :
                  IsEMADifference(fastEMA, slowEMA,
                                  At(line, k).value, At(line, k).time)
            /\ \A i \in 0 .. (Len(slowEMA) - 1) :
                  LET f == i + (slowPeriod - fastPeriod)
                  IN  (f >= 0 /\ f < Len(fastEMA)) =>
                          /\ At(fastEMA, f).time = At(slowEMA, i).time
                          /\ \E k \in 0 .. (Len(line) - 1) :
                                At(line, k) =
                                    [time  |-> At(slowEMA, i).time,
                                     value |-> RSub(At(fastEMA, f).value,
                                                    At(slowEMA, i).value)]

\* fastPeriod > slowPeriod, two output points with different non-zero macd
C6_Witness ==
    /\ fn = "MACD" /\ fastPeriod > slowPeriod /\ Len(result) >= 2
    /\ At(result, 0).macd # Num(0)
    /\ At(result, 1).macd # Num(0)
    /\ At(result, 0).macd # At(result, 1).macd

\* the MACD line as a candle sequence whose closes are its values
LineAsCandles(line) ==
    [i \in 1 .. Len(line) |-> [time |-> line[i].time, close |-> line[i].value]]

\* the signal line of a MACD result, as an indicator series
SignalSeries(res) ==
    [i \in 1 .. Len(res) |-> [time |-> res[i].time, value |-> res[i].signal]]

\* C7: the signal line is calculateEMA (period signalPeriod) of the MACD line
\* taken as closes; for fastPeriod <= slowPeriod and L >= slowPeriod +
\* signalPeriod there are L - slowPeriod - signalPeriod + 2 points, the first
\* at bars[slowPeriod+signalPeriod-2].time; exactly slowPeriod + signalPeriod
\* - 1 bars, with one signal value computable, give the empty result.
C7_SignalIsEMAOfLine ==
    fn = "MACD" =>
        LET line == LineAsCandles(MACDLine(candles, fastPeriod, slowPeriod))
        IN  /\ ~threw
            /\ L >= slowPeriod + signalPeriod =>
                  SignalSeries(result) = calculateEMA(line, signalPeriod)
            /\ (fastPeriod <= slowPeriod /\ L >= slowPeriod + signalPeriod) =>
                  /\ Len(result) = L - slowPeriod - signalPeriod + 2
                  /\ At(result, 0).time
                        = At(candles, slowPeriod + signalPeriod - 2).time
            /\ (fastPeriod <= slowPeriod /\ L = slowPeriod + signalPeriod - 1) =>
                  /\ Len(calculateEMA(line, signalPeriod)) = 1
                  /\ result = <<>>

\* a signal seeded from two MACD values and followed by a recurrence point
C7_Witness ==
    /\ fn = "MACD" /\ fastPeriod < slowPeriod /\ signalPeriod = 2
    /\ L = slowPeriod + signalPeriod + 1 /\ Len(result) = 3
    /\ At(result, 0).signal # At(result, 0).macd
    /\ At(result, 1).signal # At(result, 0).signal
    /\ At(result, 2).signal # At(result, 1).signal

\* C8: for every point of calculateMACD, histogram = macd - signal of that
\* point, the seed point and the recurrence points alike.
C8_HistogramIdentity ==
    fn = "MACD" =>
        \A k \in 0 .. (Len(result) - 1) :
            REq(At(result, k).histogram,
                RSub(At(result, k).macd, At(result, k).signal))

\* a seed point and a recurrence point, both with a non-zero histogram
C8_Witness ==
    /\ fn = "MACD" /\ Len(result) >= 2
    /\ At(result, 0).histogram # Num(0)
    /\ At(result, 1).histogram # Num(0)

ConstantBars(cs) ==
    /\ Len(cs) >= 1
    /\ RGt(At(cs, 0).volume, Num(0))
    /\ \A i \in 0 .. (Len(cs) - 1) :
          /\ At(cs, i).close = At(cs, 0).close
          /\ At(cs, i).high = At(cs, 0).high
          /\ At(cs, i).low = At(cs, 0).low
          /\ At(cs, i).volume = At(cs, 0).volume

ThirdOfHLC(c) == RDiv(RAdd(RAdd(c.high, c.low), c.close), Num(3))

\* the sum over bars 0 .. i of typical price times volume
RECURSIVE TPVTotal(_, _)
TPVTotal(cs, i) ==
    IF i < 0 THEN Num(0)
    ELSE RAdd(TPVTotal(cs, i - 1), RMul(ThirdOfHLC(At(cs, i)), At(cs, i).volume))

\* the sum over bars 0 .. i of volume
RECURSIVE VolumeTotal(_, _)
VolumeTotal(cs, i) ==
    IF i < 0 THEN Num(0) ELSE RAdd(VolumeTotal(cs, i - 1), At(cs, i).volume)

\* all four bands of a VWAP point equal its vwap
BandsCollapsed(pt) ==
    /\ SEq(pt.upperBand1, FromQ(pt.vwap))
    /\ SEq(pt.lowerBand1, FromQ(pt.vwap))
    /\ SEq(pt.upperBand2, FromQ(pt.vwap))
    /\ SEq(pt.lowerBand2, FromQ(pt.vwap))

\* C11: calculateVWAP returns one point per bar, in order, with that bar's
\* time; vwap at bar i is the sum over bars 0..i of typicalPrice*volume
\* divided by the sum over bars 0..i of volume; while the cumulative volume is
\* 0, vwap is that bar's own typical price and all four bands equal vwap.
C11_VWAPCumulative ==
    fn = "VWAP" =>
        /\ ~threw
        /\ Len(result) = L
        /\ \A i \in 0 .. (L - 1) :
              LET pt  == At(result, i)
                  vol == VolumeTotal(candles, i)
              IN  /\ pt.time = At(candles, i).time
                  /\ RGt(vol, Num(0)) =>
                        REq(pt.vwap, RDiv(TPVTotal(candles, i), vol))
                  /\ REq(vol, Num(0)) =>
                        /\ REq(pt.vwap, ThirdOfHLC(At(candles, i)))
                        /\ BandsCollapsed(pt)

\* five bars with volume whose vwap moves at every bar and is, at the last
\* bar, neither that bar's typical price nor the mean of the last two
C11_Witness ==
    /\ fn = "VWAP" /\ L = 5 /\ Len(result) = 5
    /\ \A i \in 1 .. 4 : At(result, i).vwap # At(result, i - 1).vwap
    /\ At(result, 4).vwap # ThirdOfHLC(At(candles, 4))
    /\ At(result, 4).vwap
          # RDiv(RAdd(ThirdOfHLC(At(candles, 3)), ThirdOfHLC(At(candles, 4))), Num(2))

\* the sum over bars j = 0 .. i of (typicalPrice_j - vwap_j)^2 * volume_j, with
\* vwap_j the vwap of point j of res
RECURSIVE DeviationTotal(_, _, _)
DeviationTotal(cs, res, i) ==
    IF i < 0 THEN Num(0)
    ELSE RAdd(DeviationTotal(cs, res, i - 1),
              RMul(Square(RSub(ThirdOfHLC(At(cs, i)), At(res, i).vwap)),
                   At(cs, i).volume))

\* C12: the squared-deviation running sum at bar i is the sum over j <= i of
\* (typicalPrice_j - vwap_j)^2 * volume_j with vwap_j the VWAP as it was at
\* bar j; the variance is that sum over the cumulative volume; the bands are
\* vwap +/- 1 and +/- 2 times its square root, so upperBand2 - vwap =
\* 2*(upperBand1 - vwap) and lowerBand2 <= lowerBand1 <= vwap <= upperBand1
\* <= upperBand2.
C12_VWAPBands ==
    fn = "VWAP" =>
        \A i \in 0 .. (Len(result) - 1) :
            LET pt   == At(result, i)
                vwap == FromQ(pt.vwap)
                vol  == VolumeTotal(candles, i)
                sd   == MathSqrt(RDiv(DeviationTotal(candles, result, i), vol))
            IN  /\ RGt(vol, Num(0)) =>
                      /\ SEq(pt.upperBand1, SAdd(vwap, sd))
                      /\ SEq(pt.lowerBand1, SSub(vwap, sd))
                      /\ SEq(pt.upperBand2, SAdd(vwap, SScale(Num(2), sd)))
                      /\ SEq(pt.lowerBand2, SSub(vwap, SScale(Num(2), sd)))
                /\ SEq(SSub(pt.upperBand2, vwap),
                       SScale(Num(2), SSub(pt.upperBand1, vwap)))
                /\ SLe(pt.lowerBand2, pt.lowerBand1)
                /\ SLe(pt.lowerBand1, vwap)
                /\ SLe(vwap, pt.upperBand1)
                /\ SLe(pt.upperBand1, pt.upperBand2)

\* two bars with different volumes and typical prices: open bands at bar 1
C12_Witness ==
    /\ fn = "VWAP" /\ L = 2 /\ Len(result) = 2
    /\ At(candles, 0).volume # At(candles, 1).volume
    /\ RGt(At(candles, 0).volume, Num(0))
    /\ At(result, 1).upperBand1 # FromQ(At(result, 1).vwap)
    /\ At(result, 1).upperBand2 # At(result, 1).upperBand1

\* the square of a value that is rational or a pure multiple of a square root
SquareOfRoot(u) == RAdd(Square(u.a), RMul(Square(u.b), Num(u.t)))

\* the sum of squared deviations behind the bands of point i: the square of
\* (upperBand1 - vwap) times the cumulative volume
DisplayedSum(cs, res, i) ==
    RMul(SquareOfRoot(SSub(At(res, i).upperBand1, FromQ(At(res, i).vwap))),
         VolumeTotal(cs, i))

\* the sum over bars j = 0 .. k of (typicalPrice_j - ref)^2 * volume_j
RECURSIVE DeviationTotalAgainst(_, _, _)
DeviationTotalAgainst(cs, ref, k) ==
    IF k < 0 THEN Num(0)
    ELSE RAdd(DeviationTotalAgainst(cs, ref, k - 1),
              RMul(Square(RSub(ThirdOfHLC(At(cs, k)), ref)), At(cs, k).volume))

\* C13 as stated: the variance at bar i measures the deviation of every
\* earlier bar j < i against the current vwap_i.
C13_CurrentReference ==
    fn = "VWAP" =>
        \A i \in 0 .. (Len(result) - 1) :
            REq(DisplayedSum(candles, result, i),
                DeviationTotalAgainst(candles, At(result, i).vwap, i))

\* C13, amended: the deviation of every earlier bar j < i that enters the
\* standard deviation at bar i is the one measured against vwap_j when bar j
\* was processed: from bar i - 1 to bar i the sum behind the bands grows by
\* (typicalPrice_i - vwap_i)^2 * volume_i and by nothing else.
C13_ReferenceAtItsBar ==
    fn = "VWAP" =>
        \A i \in 0 .. (Len(result) - 1) :
            REq(DisplayedSum(candles, result, i),
                RAdd(IF i = 0 THEN Num(0) ELSE DisplayedSum(candles, result, i - 1),
                     RMul(Square(RSub(ThirdOfHLC(At(candles, i)), At(result, i).vwap)),
                          At(candles, i).volume)))

\* two bars with volume, the first away from the vwap of the second
C13_Witness ==
    /\ fn = "VWAP" /\ L = 2 /\ Len(result) = 2
    /\ RGt(At(candles, 0).volume, Num(0))
    /\ RGt(At(candles, 1).volume, Num(0))
    /\ ThirdOfHLC(At(candles, 0)) # At(result, 1).vwap
    /\ DisplayedSum(candles, result, 1)
          # DeviationTotalAgainst(candles, At(result, 1).vwap, 1)

\* the share of the range below the close, 0.5 for a bar without range
CloseShare(c) ==
    IF c.high = c.low THEN RDiv(Num(1), Num(2))
    ELSE RDiv(RSub(c.close, c.low), RSub(c.high, c.low))

\* low <= open, close <= high and volume >= 0, on the candle's numbers
WellFormedBar(c) ==
    /\ RLe(c.low, c.open) /\ RLe(c.low, c.close)
    /\ RLe(c.open, c.high) /\ RLe(c.close, c.high)
    /\ RLe(Num(0), c.volume)

\* C14: for every bar, calculateCVD and calculateDeltaBars give the same
\* delta = buyVolume - sellVolume, with closePosition = (close-low)/(high-low)
\* or 0.5 when high == low, buyVolume = volume*closePosition and sellVolume =
\* volume*(1-closePosition), so buyVolume + sellVolume == volume; for a
\* well-formed bar delta lies in [-volume, +volume], is 0 when high == low,
\* +volume when close == high and -volume when close == low.
C14_DeltaFromClosePosition ==
    fn \in {"CVD", "DeltaBars"} =>
      LET cvd  == calculateCVD(candles)
          bars == calculateDeltaBars(candles)
      IN
        /\ Len(result) = L
        /\ Len(cvd) = Len(bars)
        /\ \A i \in 0 .. (L - 1) :
              LET c     == At(candles, i)
                  pt    == At(result, i)
                  buy   == RMul(c.volume, CloseShare(c))
                  sell  == RMul(c.volume, RSub(Num(1), CloseShare(c)))
              IN  /\ REq(pt.delta, RSub(buy, sell))
                  /\ REq(At(cvd, i).delta, At(bars, i).delta)
                  /\ fn = "DeltaBars" =>
                        /\ REq(pt.buyVolume, buy)
                        /\ REq(pt.sellVolume, sell)
                        /\ REq(pt.delta, RSub(pt.buyVolume, pt.sellVolume))
                        /\ REq(RAdd(pt.buyVolume, pt.sellVolume), c.volume)
                  /\ WellFormedBar(c) =>
                        /\ RLe(RNeg(c.volume), pt.delta)
                        /\ RLe(pt.delta, c.volume)
                        /\ c.high = c.low => REq(pt.delta, Num(0))
                        /\ (c.close = c.high /\ c.high # c.low) =>
                              REq(pt.delta, c.volume)
                        /\ (c.close = c.low /\ c.high # c.low) =>
                              REq(pt.delta, RNeg(c.volume))

\* a bar that closes inside its range, then a bar without range that has volume
C14_Witness ==
    /\ fn = "DeltaBars" /\ L = 2 /\ Len(result) = 2
    /\ RGt(At(result, 0).delta, Num(0))
    /\ RLt(At(result, 0).delta, At(candles, 0).volume)
    /\ RGt(At(result, 0).sellVolume, Num(0))
    /\ At(candles, 1).high = At(candles, 1).low
    /\ RGt(At(candles, 1).volume, Num(0))
    /\ At(result, 1).buyVolume = At(result, 1).sellVolume

\* C15: calculateCVD returns one point per bar, in order, with that bar's
\* time; cvd of point 0 equals delta of point 0 and, for every i >= 1,
\* cvd_i = cvd_(i-1) + delta_i.
C15_CVDRunningSum ==
    fn = "CVD" =>
        /\ ~threw
        /\ Len(result) = L
        /\ \A i \in 0 .. (L - 1) :
              /\ At(result, i).time = At(candles, i).time
              /\ i = 0 => REq(At(result, 0).cvd, At(result, 0).delta)
              /\ i >= 1 => REq(At(result, i).cvd,
                               RAdd(At(result, i - 1).cvd, At(result, i).delta))

\* a buying bar followed by a selling bar: the sum differs from both deltas
C15_Witness ==
    /\ fn = "CVD" /\ L = 2 /\ Len(result) = 2
    /\ RGt(At(result, 0).delta, Num(0))
    /\ RLt(At(result, 1).delta, Num(0))
    /\ At(result, 1).cvd # At(result, 1).delta
    /\ At(result, 1).cvd # At(result, 0).cvd

\* the bars with high # low, in input order
NonZeroRange(cs) == SelectSeq(cs, LAMBDA c : c.high # c.low)

\* the centre of bin i of n over [low, high]: low + (i + 0.5) * ((high - low) / n)
BinCentre(c, n, i) ==
    RAdd(c.low, RMul(RDiv(Num(2 * i + 1), Num(2)), RDiv(RSub(c.high, c.low), Num(n))))

\* C16: for N >= 1 every FootprintBar has exactly N levels, level i priced at
\* low + (i + 0.5) * ((high - low) / N), for bullish and bearish bars alike;
\* the prices are strictly increasing and strictly between low and high.
C16_BinCentres ==
    (fn = "Footprint" /\ levelsPerCandle >= 1) =>
        /\ Len(result) = Len(NonZeroRange(candles))
        /\ \A k \in 0 .. (Len(result) - 1) :
              LET c      == At(NonZeroRange(candles), k)
                  levels == At(result, k).levels
              IN  /\ Len(levels) = levelsPerCandle
                  /\ \A i \in 0 .. (levelsPerCandle - 1) :
                        /\ REq(At(levels, i).price, BinCentre(c, levelsPerCandle, i))
                        /\ RLt(c.low, c.high) =>
                              /\ RLt(c.low, At(levels, i).price)
                              /\ RLt(At(levels, i).price, c.high)
                              /\ i >= 1 => RLt(At(levels, i - 1).price,
                                               At(levels, i).price)

\* a bullish and a bearish bar over the same range, two levels each, at the
\* same prices
C16_Witness ==
    /\ fn = "Footprint" /\ levelsPerCandle = 2 /\ Len(result) = 2
    /\ RLt(At(candles, 0).open, At(candles, 0).close)
    /\ RLt(At(candles, 1).close, At(candles, 1).open)
    /\ Len(At(result, 0).levels) = 2
    /\ At(At(result, 0).levels, 0).price # At(candles, 0).low
    /\ At(At(result, 0).levels, 1).price = At(At(result, 1).levels, 1).price

\* C17: no entry for a bar with high == low and exactly one for every bar
\* with high != low: the output is, in input order, one FootprintBar per
\* non-zero-range bar, with that bar's time.
C17_ZeroRangeSkipped ==
    fn = "Footprint" =>
        LET kept == NonZeroRange(candles)
        IN  /\ ~threw
            /\ Len(result) = Len(kept)
            /\ Len(result)
                  = Cardinality({k \in 0 .. (L - 1) : At(candles, k).high # At(candles, k).low})
            /\ \A k \in 0 .. (Len(result) - 1) : At(result, k).time = At(kept, k).time
            /\ \A k \in 0 .. (L - 1) :
                  LET entries == {j \in 0 .. (Len(result) - 1) :
                                      At(result, j).time = At(candles, k).time}
                  IN  Cardinality(entries)
                          = IF At(candles, k).high = At(candles, k).low THEN 0 ELSE 1

\* a bar without range ahead of a bar with range: one entry, for the second
C17_Witness ==
    /\ fn = "Footprint" /\ L = 2 /\ Len(result) = 1
    /\ At(candles, 0).high = At(candles, 0).low
    /\ RGt(At(candles, 0).volume, Num(0))
    /\ At(result, 0).time = At(candles, 1).time

\* min(open, close) <= p <= max(open, close)
WithinBody(c, p) ==
    IF RLe(c.open, c.close)
    THEN RLe(c.open, p) /\ RLe(p, c.close)
    ELSE RLe(c.close, p) /\ RLe(p, c.open)

\* the volume of a bin centred at p before noise: (volume / n) * 1.5 in the
\* body, (volume / n) * 0.5 outside
BinVolume(c, n, p) ==
    RMul(RDiv(c.volume, Num(n)),
         IF WithinBody(c, p) THEN RDiv(Num(3), Num(2)) ELSE RDiv(Num(1), Num(2)))

\* the bid share at p: 0.35 + 0.15 * positionFactor on a bullish bar,
\* 0.65 - 0.15 * positionFactor on a bearish bar
BidShare(c, p) ==
    LET positionFactor == RDiv(RSub(p, c.low), RSub(c.high, c.low))
        part           == RMul(RDiv(Num(15), Num(100)), positionFactor)
    IN  IF RLe(c.open, c.close)
        THEN RAdd(RDiv(Num(35), Num(100)), part)
        ELSE RSub(RDiv(Num(65), Num(100)), part)

AskShare(c, p) == RSub(Num(1), BidShare(c, p))

\* x = amount * f
IsProduct(x, amount, f) == REq(x, RMul(amount, f))

\* x is amount times some factor from [0.9, 1.1]
IsNoised(x, amount) ==
    IF REq(amount, Num(0)) THEN REq(x, Num(0))
    ELSE /\ RLe(RDiv(Num(9), Num(10)), RDiv(x, amount))
         /\ RLe(RDiv(x, amount), RDiv(Num(11), Num(10)))

\* C18: a bin centred at p has, before noise, the volume (volume/N)*1.5 when
\* min(open,close) <= p <= max(open,close) and (volume/N)*0.5 otherwise; its
\* bid share is 0.35 + 0.15*positionFactor on a bullish bar and 0.65 -
\* 0.15*positionFactor on a bearish bar, its ask share 1 - bid share;
\* bidVolume and askVolume are the bin volume times the share times a noise
\* factor.
C18_VolumeAndShares ==
    fn = "Footprint" =>
        /\ Len(result) = Len(NonZeroRange(candles))
        /\ \A k \in 0 .. (Len(result) - 1) :
              LET c == At(NonZeroRange(candles), k)
              IN  \A i \in 0 .. (Len(At(result, k).levels) - 1) :
                      LET level == At(At(result, k).levels, i)
                          bin   == BinVolume(c, levelsPerCandle, level.price)
                      IN  /\ IsNoised(level.bidVolume,
                                      RMul(bin, BidShare(c, level.price)))
                          /\ IsNoised(level.askVolume,
                                      RMul(bin, AskShare(c, level.price)))

\* a bullish bar with one level in its body and one in its wick, drawn with
\* two different noises, followed by a bearish bar
C18_Witness ==
    /\ fn = "Footprint" /\ levelsPerCandle = 2 /\ Len(result) = 2 /\ L = 2
    /\ RLt(At(candles, 0).open, At(candles, 0).close)
    /\ RLt(At(candles, 1).close, At(candles, 1).open)
    /\ WithinBody(At(candles, 0), At(At(result, 0).levels, 0).price)
    /\ ~WithinBody(At(candles, 0), At(At(result, 0).levels, 1).price)
    /\ RGt(At(At(result, 0).levels, 1).bidVolume, Num(0))
    /\ At(draws, 0) # At(draws, 1)
    /\ RGt(At(At(result, 1).levels, 0).bidVolume, At(At(result, 1).levels, 0).askVolume)

\* the number of levels of all bars of res
RECURSIVE TotalLevels(_, _)
TotalLevels(res, k) ==
    IF k < 0 THEN 0 ELSE TotalLevels(res, k - 1) + Len(At(res, k).levels)

\* the factor 0.9 + 0.2 * d made from the random number d
FactorOf(d) == RAdd(RDiv(Num(9), Num(10)), RMul(RDiv(Num(2), Num(10)), d))

\* the factor lies in [0.9, 1.1]
InNoiseRange(f) == RLe(RDiv(Num(9), Num(10)), f) /\ RLe(f, RDiv(Num(11), Num(10)))

\* C19 as stated: the noise factor is drawn separately for the bid volume
\* and for the ask volume of a bin: level j of the call takes its bid factor
\* from one random number and its ask factor from the next.
C19_SeparateDraws ==
    fn = "Footprint" =>
        /\ Len(draws) = 2 * TotalLevels(result, Len(result) - 1)
        /\ \A k \in 0 .. (Len(result) - 1) :
              LET c == At(NonZeroRange(candles), k)
              IN  \A i \in 0 .. (levelsPerCandle - 1) :
                      LET level == At(At(result, k).levels, i)
                          bin   == BinVolume(c, levelsPerCandle, level.price)
                          j     == k * levelsPerCandle + i
                      IN  /\ IsProduct(level.bidVolume,
                                       RMul(bin, BidShare(c, level.price)),
                                       FactorOf(At(draws, 2 * j)))
                          /\ IsProduct(level.askVolume,
                                       RMul(bin, AskShare(c, level.price)),
                                       FactorOf(At(draws, 2 * j + 1)))

\* C19, amended: one noise factor from [0.9, 1.1] is drawn per bin and
\* multiplies both the bid volume and the ask volume of that bin; the call
\* draws one random number per level, in level order, and the factors of
\* different bins are separate draws.
C19_OneDrawPerBin ==
    fn = "Footprint" =>
        /\ Len(draws) = TotalLevels(result, Len(result) - 1)
        /\ \A k \in 0 .. (Len(result) - 1) :
              LET c == At(NonZeroRange(candles), k)
              IN  \A i \in 0 .. (levelsPerCandle - 1) :
                      LET level  == At(At(result, k).levels, i)
                          bin    == BinVolume(c, levelsPerCandle, level.price)
                          factor == FactorOf(At(draws, k * levelsPerCandle + i))
                      IN  /\ InNoiseRange(factor)
                          /\ IsProduct(level.bidVolume,
                                       RMul(bin, BidShare(c, level.price)), factor)
                          /\ IsProduct(level.askVolume,
                                       RMul(bin, AskShare(c, level.price)), factor)

\* the bid and the ask volume of level i of bar k carry the same factor
SameFactor(k, i) ==
    LET c     == At(NonZeroRange(candles), k)
        level == At(At(result, k).levels, i)
        bin   == BinVolume(c, levelsPerCandle, level.price)
    IN  /\ ~REq(bin, Num(0))
        /\ REq(RDiv(level.bidVolume, RMul(bin, BidShare(c, level.price))),
               RDiv(level.askVolume, RMul(bin, AskShare(c, level.price))))

\* the factor on the bid volume of level i of bar k
BidFactor(k, i) ==
    LET c     == At(NonZeroRange(candles), k)
        level == At(At(result, k).levels, i)
    IN  RDiv(level.bidVolume,
             RMul(BinVolume(c, levelsPerCandle, level.price), BidShare(c, level.price)))

\* two bins of one bar with different factors, each the same on both sides
C19_Witness ==
    /\ fn = "Footprint" /\ levelsPerCandle = 2 /\ Len(result) >= 1
    /\ Len(draws) >= 2
    /\ At(draws, 0) # At(draws, 1)
    /\ SameFactor(0, 0)
    /\ SameFactor(0, 1)
    /\ BidFactor(0, 0) # BidFactor(0, 1)

\* C20: imbalance is 'ask' exactly when askVolume > 3*bidVolume, 'bid'
\* exactly when bidVolume > 3*askVolume and askVolume <= 3*bidVolume, and
\* 'neutral' otherwise.
C20_ImbalanceRule ==
    fn = "Footprint" =>
        \A k \in 0 .. (Len(result) - 1) :
            \A i \in 0 .. (Len(At(result, k).levels) - 1) :
                LET level == At(At(result, k).levels, i)
                    ask3  == RGt(level.askVolume, RMul(Num(3), level.bidVolume))
                    bid3  == RGt(level.bidVolume, RMul(Num(3), level.askVolume))
                IN  /\ level.imbalance \in {"ask", "bid", "neutral"}
                    /\ level.imbalance = "ask" <=> ask3
                    /\ level.imbalance = "bid" <=>
                          (bid3 /\ RLe(level.askVolume, RMul(Num(3), level.bidVolume)))
                    /\ level.imbalance = "neutral" <=> (~ask3 /\ ~bid3)

\* a bar whose levels have more ask than bid volume, below the threshold,
\* and a bar whose levels are over it
C20_Witness ==
    /\ fn = "Footprint" /\ Len(result) = 2
    /\ At(At(result, 0).levels, 0).imbalance = "neutral"
    /\ RGt(At(At(result, 0).levels, 0).askVolume, At(At(result, 0).levels, 0).bidVolume)
    /\ At(At(result, 1).levels, 0).imbalance = "ask"

\* bidVolume + askVolume of a level
LevelTotal(level) == RAdd(level.bidVolume, level.askVolume)

\* level i of levels holds the largest total and is the first that does
FirstMaximum(levels, i) ==
    /\ \A j \in 0 .. (Len(levels) - 1) : RLe(LevelTotal(At(levels, j)), LevelTotal(At(levels, i)))
    /\ \A j \in 0 .. (i - 1) : RLt(LevelTotal(At(levels, j)), LevelTotal(At(levels, i)))

\* C21: pocPrice of every FootprintBar is the price of the level of that bar
\* whose bidVolume + askVolume is maximal, the first in bin order among equal
\* ones; it is always the price of one of the bar's levels, also when the
\* bar's volume is 0.
C21_PocIsFirstMaximum ==
    fn = "Footprint" =>
        \A k \in 0 .. (Len(result) - 1) :
            LET bar == At(result, k)
            IN  \E i \in 0 .. (Len(bar.levels) - 1) :
                    /\ REq(bar.pocPrice, At(bar.levels, i).price)
                    /\ FirstMaximum(bar.levels, i)

\* the sum of bidVolume over levels 0 .. i
RECURSIVE BidTotal(_, _)
BidTotal(levels, i) ==
    IF i < 0 THEN Num(0) ELSE RAdd(BidTotal(levels, i - 1), At(levels, i).bidVolume)

\* the sum of askVolume over levels 0 .. i
RECURSIVE AskTotal(_, _)
AskTotal(levels, i) ==
    IF i < 0 THEN Num(0) ELSE RAdd(AskTotal(levels, i - 1), At(levels, i).askVolume)

\* the sum of delta over levels 0 .. i
RECURSIVE DeltaTotal(_, _)
DeltaTotal(levels, i) ==
    IF i < 0 THEN Num(0) ELSE RAdd(DeltaTotal(levels, i - 1), At(levels, i).delta)

\* C22: in every FootprintBar every level has delta = askVolume - bidVolume,
\* totalBidVolume is the sum of bidVolume over the levels, totalAskVolume the
\* sum of askVolume, and totalDelta = totalAskVolume - totalBidVolume, which
\* is the sum of the level deltas.
C22_TotalsAreSums ==
    fn = "Footprint" =>
        \A k \in 0 .. (Len(result) - 1) :
            LET bar  == At(result, k)
                last == Len(bar.levels) - 1
            IN  /\ \A i \in 0 .. last :
                      REq(At(bar.levels, i).delta,
                          RSub(At(bar.levels, i).askVolume, At(bar.levels, i).bidVolume))
                /\ REq(bar.totalBidVolume, BidTotal(bar.levels, last))
                /\ REq(bar.totalAskVolume, AskTotal(bar.levels, last))
                /\ REq(bar.totalDelta, RSub(bar.totalAskVolume, bar.totalBidVolume))
                /\ REq(bar.totalDelta, DeltaTotal(bar.levels, last))

\* a bar of two levels with different noise, more bid than ask volume
C22_Witness ==
    /\ fn = "Footprint" /\ levelsPerCandle = 2 /\ Len(result) >= 1
    /\ At(draws, 0) # At(draws, 1)
    /\ RGt(At(At(result, 0).levels, 0).bidVolume, Num(0))
    /\ RGt(At(At(result, 0).levels, 1).bidVolume, Num(0))
    /\ RLt(At(result, 0).totalDelta, Num(0))
    /\ ~REq(At(result, 0).totalBidVolume, At(At(result, 0).levels, 1).bidVolume)

\* the times of a sequence of bars or points increase strictly
IncreasingTimes(s) == \A i \in 0 .. (Len(s) - 2) : At(s, i).time < At(s, i + 1).time

\* C23: for every indicator function and every input with strictly
\* increasing times, the time of every output point is the time of some
\* input bar, no input time appears twice in the output, and the output
\* times are strictly increasing.
C23_OutputTimes ==
    (fn # "none" /\ IncreasingTimes(candles)) =>
        /\ \A k \in 0 .. (Len(result) - 1) :
              \E i \in 0 .. (L - 1) : At(result, k).time = At(candles, i).time
        /\ \A i \in 0 .. (L - 1) :
              Cardinality({k \in 0 .. (Len(result) - 1) :
                              At(result, k).time = At(candles, i).time}) <= 1
        /\ IncreasingTimes(result)

\* a call that returns fewer points than it was given bars, and more than one
C23_Witness ==
    /\ fn \in {"MACD", "RSI", "Footprint"}
    /\ IncreasingTimes(candles)
    /\ Len(result) >= 2
    /\ Len(result) < L
    /\ At(result, 0).time # At(candles, 0).time

\* the number of points a windowed function returns for n bars: one per
\* window of length w that fits
Windows(n, w) == IF n < w THEN 0 ELSE n - w + 1

\* C25: on bars that are not well formed (high < low, open or close outside
\* [low, high], negative volume) and positive integer parameters no indicator
\* function throws and each returns a sequence, of the length it has for
\* well-formed bars; calculateCVD takes closePosition 0.5, that is delta 0,
\* where high - low <= 0; calculateFootprint skips only the bars with
\* high - low = 0 and emits N levels also for a negative range.
C25_MalformedBars ==
    fn # "none" =>
        /\ ~threw
        /\ DOMAIN result = 1 .. Len(result)
        /\ fn \in {"SMA", "EMA", "BollingerBands"} => Len(result) = Windows(L, period)
        /\ fn = "RSI" => Len(result) = Windows(L, period + 1)
        /\ fn \in {"VWAP", "CVD", "DeltaBars"} => Len(result) = L
        /\ fn = "CVD" =>
              \A k \in 0 .. (L - 1) :
                  RLe(RSub(At(candles, k).high, At(candles, k).low), Num(0))
                      => REq(At(result, k).delta, Num(0))
        /\ fn = "Footprint" =>
              /\ Len(result) = Len(NonZeroRange(candles))
              /\ \A k \in 0 .. (Len(result) - 1) :
                    /\ At(result, k).time = At(NonZeroRange(candles), k).time
                    /\ Len(At(result, k).levels) = levelsPerCandle

\* a bar with high below low, given two levels, ahead of a bar without range
\* whose open and close lie outside it
C25_Witness ==
    /\ fn = "Footprint" /\ levelsPerCandle = 2 /\ L = 2 /\ Len(result) = 1
    /\ RLt(At(candles, 0).high, At(candles, 0).low)
    /\ Len(At(result, 0).levels) = 2
    /\ RLt(At(At(result, 0).levels, 1).price, At(At(result, 0).levels, 0).price)
    /\ REq(At(candles, 1).high, At(candles, 1).low)
    /\ RGt(At(candles, 1).close, At(candles, 1).high)

\* the part of a level's volume that is bid volume
BidPart(level) == RDiv(level.bidVolume, LevelTotal(level))

\* C26: for inputs with positive volume and all noise draws no level has
\* imbalance 'bid' or 'ask': the bid share of a level stays within
\* [0.35, 0.65] and one factor multiplies both volumes, so neither volume
\* exceeds 3 times the other and every level is 'neutral'.
C26_AlwaysNeutral ==
    fn = "Footprint" =>
        \A k \in 0 .. (Len(result) - 1) :
            RGt(At(NonZeroRange(candles), k).volume, Num(0)) =>
                \A i \in 0 .. (Len(At(result, k).levels) - 1) :
                    LET level == At(At(result, k).levels, i)
                    IN  /\ level.imbalance = "neutral"
                        /\ RLe(Norm(35, 100), BidPart(level))
                        /\ RLe(BidPart(level), Norm(65, 100))
                        /\ RLe(level.askVolume, RMul(Num(3), level.bidVolume))
                        /\ RLe(level.bidVolume, RMul(Num(3), level.askVolume))

\* a bullish and a bearish bar with positive volume, the first with two levels
\* under different noise: more ask than bid volume on the first bar, more
\* bid than ask volume on the second, all neutral
C26_Witness ==
    /\ fn = "Footprint" /\ levelsPerCandle = 2 /\ Len(result) = 2 /\ L = 2
    /\ RGt(At(candles, 0).volume, Num(0)) /\ RGt(At(candles, 1).volume, Num(0))
    /\ At(draws, 0) # At(draws, 1)
    /\ RGt(At(At(result, 0).levels, 0).askVolume, At(At(result, 0).levels, 0).bidVolume)
    /\ RGt(At(At(result, 1).levels, 1).bidVolume, At(At(result, 1).levels, 1).askVolume)
    /\ At(At(result, 0).levels, 0).imbalance = "neutral"
    /\ At(At(result, 1).levels, 1).imbalance = "neutral"

\* C27: for every well-formed bar with positive volume and non-zero range
\* the order flow follows the bar's direction at every level, whatever the
\* noise: on a bullish bar (close >= open, a doji included) askVolume >
\* bidVolume and delta > 0 at every level, so totalDelta > 0; on a bearish
\* bar bidVolume > askVolume and delta < 0 at every level, so totalDelta < 0.
C27_SignFollowsDirection ==
    fn = "Footprint" =>
        \A k \in 0 .. (Len(result) - 1) :
            LET c   == At(NonZeroRange(candles), k)
                bar == At(result, k)
            IN  (WellFormedBar(c) /\ RGt(c.volume, Num(0))) =>
                    IF RLe(c.open, c.close)
                    THEN /\ \A i \in 0 .. (Len(bar.levels) - 1) :
                               /\ RGt(At(bar.levels, i).askVolume, At(bar.levels, i).bidVolume)
                               /\ RGt(At(bar.levels, i).delta, Num(0))
                         /\ RGt(bar.totalDelta, Num(0))
                    ELSE /\ \A i \in 0 .. (Len(bar.levels) - 1) :
                               /\ RGt(At(bar.levels, i).bidVolume, At(bar.levels, i).askVolume)
                               /\ RLt(At(bar.levels, i).delta, Num(0))
                         /\ RLt(bar.totalDelta, Num(0))

\* a doji and a bearish bar, both well formed with positive volume, two
\* levels each under different noise
C27_Witness ==
    /\ fn = "Footprint" /\ levelsPerCandle = 2 /\ Len(result) = 2 /\ L = 2
    /\ WellFormedBar(At(candles, 0)) /\ WellFormedBar(At(candles, 1))
    /\ RGt(At(candles, 0).volume, Num(0)) /\ RGt(At(candles, 1).volume, Num(0))
    /\ REq(At(candles, 0).open, At(candles, 0).close)
    /\ RLt(At(candles, 1).close, At(candles, 1).open)
    /\ At(draws, 0) # At(draws, 1)
    /\ At(draws, 2) # At(draws, 3)
    /\ RGt(At(result, 0).totalDelta, Num(0))
    /\ RLt(At(result, 1).totalDelta, Num(0))

\* C28: FootprintOverlay draws the i-th FootprintBar with candles[i], and
\* for every i this candle is the bar the entry was computed from:
\* footprintData[i].time = candles[i].time, for every candle sequence, those
\* with a bar with high = low included.
C28_SlotsAligned ==
    fn = "FootprintOverlay" =>
        \A i \in 0 .. (Len(result) - 1) :
            /\ At(result, i).candle = At(candles, i)
            /\ At(result, i).fp.time = At(result, i).candle.time

\* C29: the candle sequence a chart component hands to the indicator engine
\* keeps unique, strictly increasing times after any sequence of kline
\* events: after every event, the closing event of the bar that is already
\* last and the first update of the next bar included, no two candles share
\* a time.
C29_UniqueTimes ==
    component # "none" => IncreasingTimes(candles)

\* C30: after disconnect() no new WebSocket is opened and no callback fires
\* again unless connect() or changeSymbol() is called afterwards, for every
\* interleaving of disconnect() with the socket's close event and with a
\* reconnect timer that was set before the call and has not fired yet.
C30_QuietAfterDisconnect ==
    [][(disconnected /\ disconnected') =>
           (Len(sockets') = Len(sockets) /\ callback' = "none")]_vars

===========================================================================
